---- MODULE Spec2Model ----
(***************************************************************************)
(* The event-to-store projection of the bacefook worker:                   *)
(* DatabaseClient.processBatch (apps/worker/src/database-client.ts) run by *)
(* several concurrent tasks of one process against one PostgreSQL store.   *)
(*                                                                         *)
(* The store holds the committed rows of the four tables.  A projection    *)
(* transaction (READ COMMITTED) keeps its uncommitted rows in txRef,       *)
(* txFriend and txLogs; an uncommitted row locks its unique key, a         *)
(* statement that needs a key locked by another transaction waits (its     *)
(* action is disabled), and the rows become visible to the others at       *)
(* commit.  One action is one statement, or one continuation of the        *)
(* JavaScript code between two awaits.                                      *)
(***************************************************************************)
EXTENDS Integers, Sequences, FiniteSets, TLC

(* ------------------------------- bounds -------------------------------- *)

\* number of distinct user names the events draw from
MaxNames == 2
\* number of concurrent processBatch invocations of the process
NumTasks == 2
\* longest batch handed to processBatch
MaxBatchLen == 3
\* events projected in one behaviour by the concurrent tasks, over all batches
MaxEvents == 2
\* events projected in one behaviour by a single task, over all batches
MaxSeqEvents == 3
\* times a batch that has been projected is handed to processBatch again
MaxReplays == 1
\* number of workerProcess loops of the Worker (WORKER_CONCURRENCY)
NumWorkers == 2
\* items in the queue when the Worker starts
QueueLen == 2
\* maxBatchSize of the Worker (BATCH_SIZE)
BatchSize == 2
\* times the callback of the monitoring interval runs in one behaviour
MaxFired == 2

(* ------------------------------- events -------------------------------- *)

NamePool == <<"alice", "bob", "carol", "dave">>

Names == {NamePool[i] : i \in 1..MaxNames}

Tasks == 1..NumTasks

WorkerIds == 1..NumWorkers

RegisterEvent(n) == [type |-> "register", name |-> n]

ReferralEvent(r, u) == [type |-> "referral", referredBy |-> r, user |-> u]

AddFriendEvent(a, b) == [type |-> "addfriend", user1_name |-> a, user2_name |-> b]

UnfriendEvent(a, b) == [type |-> "unfriend", user1_name |-> a, user2_name |-> b]

ConnectionEvent ==
    {RegisterEvent(n) : n \in Names}
    \cup {ReferralEvent(r, u) : r \in Names, u \in Names}
    \cup {AddFriendEvent(a, b) : a \in Names, b \in Names}
    \cup {UnfriendEvent(a, b) : a \in Names, b \in Names}

RECURSIVE SeqsOfLen(_, _)
SeqsOfLen(S, n) ==
    IF n = 0 THEN {<<>>}
    ELSE {Append(s, x) : s \in SeqsOfLen(S, n - 1), x \in S}

\* the batches of n events, for n up to MaxBatchLen
Batches == [n \in 1..MaxBatchLen |-> SeqsOfLen(ConnectionEvent, n)]

(* ------------------------------ helpers -------------------------------- *)

\* Map.get: 0 stands for undefined (both are falsy in `if (cachedUserId)`)
MapGet(m, k) == IF k \in DOMAIN m THEN m[k] ELSE 0

MapSet(m, k, v) == [x \in DOMAIN m \cup {k} |-> IF x = k THEN v ELSE m[x]]

MapDelete(m, k) == [x \in DOMAIN m \ {k} |-> m[x]]

EmptyMap == [x \in {} |-> 0]

SeqMap(F(_), s) == [i \in 1..Len(s) |-> F(s[i])]

Range(s) == {s[i] : i \in 1..Len(s)}

HasDuplicates(s) == \E i, j \in 1..Len(s) : i < j /\ s[i] = s[j]

(* ------------------------------- state --------------------------------- *)

VARIABLES
    users,              \* table users: users[id] is the name of the row with that id
    friendships,        \* table friendships, committed rows
    referrals,          \* table referrals, committed rows in insertion order
    logs,               \* table transaction_logs, committed rows in insertion order
    userCache,          \* DatabaseClient.userCache: name -> id
    cacheStale,         \* Date.now() - cacheLastUpdated > CACHE_TTL
    userCreationMutex,  \* DatabaseClient.userCreationMutex: name -> stage of the promise
    pc,                 \* where each processBatch invocation stands
    batch,              \* its argument `transactions`
    snap,               \* the result of its findMany, until refreshUserCache applies it
    userMap,            \* its userMap, as far as resolved
    pending,            \* the names whose creation promise it awaits
    txRef,              \* referral rows its transaction inserted, uncommitted
    txFriend,           \* friendship rows its transaction wrote, uncommitted
    issued,             \* history: the statements its transaction has issued
    attempts,           \* times it has invoked prisma.$transaction
    inserts,            \* prisma.user.create requests sent and not answered, per name
    attempt,            \* `attempt` of the retryOnDeadlock that creates the name
    outcome,            \* how its last processBatch ended: "none" (it has not), "ok",
                        \* or the error it threw
    concurrency,        \* the number of tasks that call processBatch
    budget,             \* events that may still be handed to processBatch
    replays,            \* batches handed to processBatch a second time so far
    okEvents,           \* history: the events of the committed batches, in commit order
    runs,               \* history: the last two processBatch calls that returned
    queue,              \* the Redis list: LPUSH adds at the head, RPOP takes the last
    isRunning,          \* Worker.isRunning
    wpc,                \* where each workerProcess stands
    popped,             \* `transactions` of its popBatch, then of its loop iteration
    popI,               \* the counter of the serial fallback loop of its popBatch
    awaiting,           \* the processBatch invocations its Promise.all awaits
    stopPc,             \* where Worker.stop stands
    processedCount,     \* Worker.processedCount
    monitor,            \* the interval of startPerformanceMonitoring: whether it is
                        \* set, and the times its callback has run
    parseErrors         \* history: the "Failed to parse transaction" lines popBatch
                        \* has logged

vars == <<users, friendships, referrals, logs, userCache, cacheStale,
          userCreationMutex, pc, batch, snap, userMap, pending, txRef, txFriend,
          issued, attempts, inserts, attempt, outcome, concurrency, budget, replays, okEvents, runs,
          queue, isRunning, wpc, popped, popI, awaiting, stopPc, processedCount,
          monitor, parseErrors>>

storeVars == <<users, friendships, referrals, logs>>

\* the state of the Worker and of the queue
workerVars == <<queue, isRunning, wpc, popped, popI, awaiting, stopPc, processedCount,
                monitor, parseErrors>>

\* what no step of processBatch writes
ctlVars == <<concurrency, budget, replays, workerVars>>

\* written only where processBatch resolves the users of its batch
callVars == <<attempts, inserts, attempt>>

(* ------------------------------ the store ------------------------------ *)

UserNames == Range(users)

\* a lookup that yields no id
UserIdMissing(n) == 0

\* SELECT id FROM users WHERE name = n
UserIdOf(n) == CHOOSE i \in 1..Len(users) : users[i] = n

\* a mapping that counts the rows from 0
AllUsersFromZero == [n \in UserNames |-> UserIdOf(n) - 1]

\* findMany({select: {id, name}}) as the name -> id mapping the cache is filled with
AllUsers == [n \in UserNames |-> UserIdOf(n)]

FriendKey(r) == <<r.user1Id, r.user2Id>>

FriendKeys(rows) == {FriendKey(r) : r \in rows}

\* the rows of `written` alone
OverlayReplacesAll(base, written) == written

\* the rows of `base` with the rows of `written` replacing those of the same key
Overlay(base, written) ==
    {r \in base : FriendKey(r) \notin FriendKeys(written)} \cup written

(* --------------------------- preprocessBatch --------------------------- *)

EventNames(e) ==
    CASE e.type = "register" -> {e.name}
      [] e.type = "referral" -> {e.user, e.referredBy}
      [] e.type = "addfriend" -> {e.user1_name, e.user2_name}
      [] e.type = "unfriend" -> {e.user1_name, e.user2_name}

\* log entries that name the first name of the event, the referrer for a referral
LogOfFirstName(e) ==
    CASE e.type = "register" -> [userName |-> e.name, type |-> "register", data |-> e]
      [] e.type = "referral" ->
            [userName |-> e.referredBy, type |-> "referral", data |-> e]
      [] e.type = "addfriend" ->
            [userName |-> e.user1_name, type |-> "addfriend", data |-> e]
      [] e.type = "unfriend" ->
            [userName |-> e.user1_name, type |-> "unfriend", data |-> e]

LogOf(e) ==
    CASE e.type = "register" -> [userName |-> e.name, type |-> "register", data |-> e]
      [] e.type = "referral" -> [userName |-> e.user, type |-> "referral", data |-> e]
      [] e.type = "addfriend" ->
            [userName |-> e.user1_name, type |-> "addfriend", data |-> e]
      [] e.type = "unfriend" ->
            [userName |-> e.user1_name, type |-> "unfriend", data |-> e]

OfType(transactions, ty) == SelectSeq(transactions, LAMBDA e : e.type = ty)

ReferralOf(e) == [referrerId |-> e.referredBy, referredId |-> e.user]

PairOf(e) == [user1 |-> e.user1_name, user2 |-> e.user2_name]

preprocessBatch(transactions) ==
    [newUsers |-> UNION {EventNames(transactions[i]) : i \in 1..Len(transactions)},
     referrals |-> SeqMap(ReferralOf, OfType(transactions, "referral")),
     friendships |-> SeqMap(PairOf, OfType(transactions, "addfriend")),
     unfriendships |-> SeqMap(PairOf, OfType(transactions, "unfriend")),
     transactionLogs |-> SeqMap(LogOf, transactions)]

(* ------------------- the statements of the transaction ----------------- *)

\* the ids in the order of the event
OrderIdsAsGiven(user1Id, user2Id) == <<user1Id, user2Id>>

\* [smallerId, largerId] = user1Id < user2Id ? [user1Id, user2Id] : [user2Id, user1Id]
OrderIds(user1Id, user2Id) ==
    IF user1Id < user2Id THEN <<user1Id, user2Id>> ELSE <<user2Id, user1Id>>

\* batchData.referrals.map(...): the rows handed to referral.createMany
referralData(bd, um) ==
    SeqMap(LAMBDA ref : [referrerId |-> um[ref.referrerId],
                         referredId |-> um[ref.referredId]], bd.referrals)

\* batchData.friendships.map(...): the keys of the VALUES list of the upsert
friendshipData(bd, um) ==
    SeqMap(LAMBDA f : OrderIds(um[f.user1], um[f.user2]), bd.friendships)

\* batchData.unfriendships.map(...): the keys of the WHERE clause of the update
unfriendshipData(bd, um) ==
    SeqMap(LAMBDA u : OrderIds(um[u.user1], um[u.user2]), bd.unfriendships)

RECURSIVE Distinct(_)
Distinct(s) ==
    IF s = <<>> THEN <<>>
    ELSE LET front == Distinct(SubSeq(s, 1, Len(s) - 1))
         IN  IF s[Len(s)] \in Range(front) THEN front ELSE Append(front, s[Len(s)])

\* one log row per distinct event
logDataDistinct(bd, um) ==
    SeqMap(LAMBDA log : [userId |-> um[log.userName],
                         transactionType |-> log.type,
                         transactionData |-> log.data], Distinct(bd.transactionLogs))

\* batchData.transactionLogs.map(...): the rows handed to transactionLog.createMany
logData(bd, um) ==
    SeqMap(LAMBDA log : [userId |-> um[log.userName],
                         transactionType |-> log.type,
                         transactionData |-> log.data], bd.transactionLogs)

\* a row of friendships; updatedAt stands for updated_at: the ordinal, among the
\* statements that have written the row, of the one whose NOW() it holds
FriendRow(key, status, updatedAt) ==
    [user1Id |-> key[1], user2Id |-> key[2], status |-> status, updatedAt |-> updatedAt]

\* the update of the unfriendships issued before the upsert of the friendships
StageOrderUnfriendFirst == <<"referrals", "unfriendships", "friendships", "logs">>

StageOrder == <<"referrals", "friendships", "unfriendships", "logs">>

StageList(bd, stage) ==
    CASE stage = "referrals" -> bd.referrals
      [] stage = "friendships" -> bd.friendships
      [] stage = "unfriendships" -> bd.unfriendships
      [] stage = "logs" -> bd.transactionLogs

StageIndex(stage) == CHOOSE i \in 0..Len(StageOrder) :
                        IF stage = "begin" THEN i = 0 ELSE i > 0 /\ StageOrder[i] = stage

\* a callback that issues the update of the unfriendships whatever their number
NextStageUnguarded(bd, stage) ==
    LET later == {i \in 1..Len(StageOrder) :
                    /\ i > StageIndex(stage)
                    /\ \/ StageOrder[i] = "unfriendships"
                       \/ Len(StageList(bd, StageOrder[i])) > 0}
    IN  StageOrder[CHOOSE i \in later : \A j \in later : i <= j]

\* the statement the transaction callback issues after `stage`: a step whose list is
\* empty issues no statement
NextStage(bd, stage) ==
    LET later == {i \in 1..Len(StageOrder) :
                    i > StageIndex(stage) /\ Len(StageList(bd, StageOrder[i])) > 0}
    IN  StageOrder[CHOOSE i \in later : \A j \in later : i <= j]

TxStages == {"referrals", "friendships", "unfriendships", "logs"}

(* -------------------------------- Init --------------------------------- *)

\* an empty database, after connect() has filled the cache from it
InitStore ==
    /\ users = <<>>
    /\ friendships = {}
    /\ referrals = <<>>
    /\ logs = <<>>
    /\ userCache = EmptyMap
    /\ cacheStale = FALSE
    /\ userCreationMutex = EmptyMap
    /\ pc = [t \in Tasks |-> "idle"]
    /\ batch = [t \in Tasks |-> <<>>]
    /\ snap = [t \in Tasks |-> EmptyMap]
    /\ userMap = [t \in Tasks |-> EmptyMap]
    /\ pending = [t \in Tasks |-> {}]
    /\ txRef = [t \in Tasks |-> <<>>]
    /\ txFriend = [t \in Tasks |-> {}]
    /\ issued = [t \in Tasks |-> <<>>]
    /\ attempts = [t \in Tasks |-> 0]
    /\ inserts = [n \in Names |-> 0]
    /\ attempt = [n \in Names |-> 0]
    /\ outcome = [t \in Tasks |-> "none"]
    /\ replays = 0
    /\ okEvents = <<>>
    /\ runs = <<>>

\* a Worker that has been constructed and initialized, not started
InitWorker ==
    /\ isRunning = FALSE
    /\ wpc = [w \in WorkerIds |-> "new"]
    /\ popped = [w \in WorkerIds |-> <<>>]
    /\ popI = [w \in WorkerIds |-> 0]
    /\ awaiting = [w \in WorkerIds |-> {}]
    /\ stopPc = "none"
    /\ processedCount = 0
    /\ monitor = [set |-> FALSE, fired |-> 0]
    /\ parseErrors = 0

Init ==
    /\ InitStore
    /\ InitWorker
    /\ queue = <<>>
    /\ concurrency = NumTasks
    /\ budget = MaxEvents

\* the same process with one task: processBatch calls follow one another
InitSeq ==
    /\ InitStore
    /\ InitWorker
    /\ queue = <<>>
    /\ concurrency = 1
    /\ budget = MaxSeqEvents

(* --------------------------- ensureUsersExist -------------------------- *)

\* a createUserSafely that joins no promise
NoneInFlight(n) == FALSE

\* createUserSafely: userCreationMutex.get(name) yields the promise of a creation of
\* this name that is in progress
InFlight(n) == n \in DOMAIN userCreationMutex

\* the part of processBatch from preprocessBatch to the first await of
\* ensureUsersExist, run with the cache as it is then (`cache`): cache hits go to
\* userMap, and createUserSafely is called for every miss: it joins the promise in
\* userCreationMutex if there is one, and otherwise sends the INSERT and registers it
EnsureUsers(t, transactions, cache) ==
    LET bd == preprocessBatch(transactions)
        hits == {n \in bd.newUsers : MapGet(cache, n) # 0}
        usersToCreate == bd.newUsers \ hits
        started == {n \in usersToCreate : ~InFlight(n)}
    IN  /\ userMap' = [userMap EXCEPT ![t] = [n \in hits |-> cache[n]]]
        /\ pending' = [pending EXCEPT ![t] = usersToCreate]
        /\ userCreationMutex' =
              [n \in DOMAIN userCreationMutex \cup usersToCreate |->
                  IF n \in started THEN "create" ELSE userCreationMutex[n]]
        /\ inserts' = [n \in Names |-> inserts[n] + IF n \in started THEN 1 ELSE 0]
        /\ attempt' = [n \in Names |-> IF n \in started THEN 0 ELSE attempt[n]]
        /\ pc' = [pc EXCEPT ![t] =
                    IF usersToCreate = {} THEN NextStage(bd, "begin") ELSE "users"]
        /\ attempts' = [attempts EXCEPT ![t] = IF usersToCreate = {} THEN 1 ELSE 0]

\* processBatch(b) is called: it returns at once when b is empty; otherwise
\* ensureUserCacheFresh either sends the findMany of refreshUserCache or goes on to
\* ensureUsersExist
Call(t, b) ==
    /\ t <= concurrency
    /\ pc[t] = "idle"
    /\ batch' = [batch EXCEPT ![t] = b]
    /\ issued' = [issued EXCEPT ![t] = <<>>]
    /\ IF Len(b) = 0
       THEN /\ outcome' = [outcome EXCEPT ![t] = "ok"]
            /\ UNCHANGED <<pc, userMap, pending, userCreationMutex, callVars>>
       ELSE /\ outcome' = [outcome EXCEPT ![t] = "none"]
            /\ IF cacheStale
               THEN /\ pc' = [pc EXCEPT ![t] = "refresh"]
                    /\ attempts' = [attempts EXCEPT ![t] = 0]
                    /\ UNCHANGED <<userMap, pending, userCreationMutex, inserts, attempt>>
               ELSE EnsureUsers(t, b, userCache)
    /\ UNCHANGED <<storeVars, userCache, cacheStale, snap, txRef, txFriend,
                   concurrency, okEvents, runs, workerVars>>

\* a task hands a new batch to processBatch
Begin(t, b) ==
    /\ Call(t, b)
    /\ budget' = budget - Len(b)
    /\ UNCHANGED replays

\* a task hands the batch whose processBatch has just returned to processBatch again
\* (the queue held the same events twice)
Replay(t) ==
    /\ replays < MaxReplays
    /\ outcome[t] # "none"
    /\ Call(t, batch[t])
    /\ replays' = replays + 1
    /\ UNCHANGED budget

\* the store answers the findMany of refreshUserCache
RefreshRead(t) ==
    /\ pc[t] = "refresh"
    /\ snap' = [snap EXCEPT ![t] = AllUsers]
    /\ pc' = [pc EXCEPT ![t] = "refreshed"]
    /\ UNCHANGED <<storeVars, userCache, cacheStale, userCreationMutex, batch, userMap,
                   pending, txRef, txFriend, issued, outcome, callVars, ctlVars,
                   okEvents, runs>>

\* a refresh whose clear() is followed by an await: the names of the batch are
\* resolved against the emptied cache
RefreshClearsFirst(t) ==
    /\ pc[t] = "refreshed"
    /\ userCache' = EmptyMap
    /\ cacheStale' = FALSE
    /\ snap' = [snap EXCEPT ![t] = EmptyMap]
    /\ EnsureUsers(t, batch[t], EmptyMap)
    /\ UNCHANGED <<storeVars, batch, txRef, txFriend, issued, outcome, ctlVars, okEvents, runs>>

\* a refresh that stamps the cache and leaves its entries as they were
RefreshKeepsEntries(t) ==
    /\ pc[t] = "refreshed"
    /\ userCache' = userCache
    /\ cacheStale' = FALSE
    /\ snap' = [snap EXCEPT ![t] = EmptyMap]
    /\ EnsureUsers(t, batch[t], userCache)
    /\ UNCHANGED <<storeVars, batch, txRef, txFriend, issued, outcome, ctlVars, okEvents, runs>>

\* refreshUserCache goes on after its await: clear, refill, stamp; processBatch then
\* runs on to the first await of ensureUsersExist
RefreshApply(t) ==
    /\ pc[t] = "refreshed"
    /\ userCache' = snap[t]
    /\ cacheStale' = FALSE
    /\ snap' = [snap EXCEPT ![t] = EmptyMap]
    /\ EnsureUsers(t, batch[t], snap[t])
    /\ UNCHANGED <<storeVars, batch, txRef, txFriend, issued, outcome, ctlVars, okEvents, runs>>

\* the promise of createUserSafely(n) resolves with id: the mutex entry is deleted and
\* every ensureUsersExist awaiting it records the id; one that awaits nothing else
\* opens its transaction
ResolveUser(n, id) ==
    /\ userCreationMutex' = MapDelete(userCreationMutex, n)
    /\ userMap' = [t \in Tasks |->
                     IF n \in pending[t] THEN MapSet(userMap[t], n, id) ELSE userMap[t]]
    /\ pending' = [t \in Tasks |-> pending[t] \ {n}]
    /\ pc' = [t \in Tasks |->
                IF pc[t] = "users" /\ pending[t] = {n}
                THEN NextStage(preprocessBatch(batch[t]), "begin")
                ELSE pc[t]]
    /\ attempts' = [t \in Tasks |->
                      IF pc[t] = "users" /\ pending[t] = {n} THEN 1 ELSE attempts[t]]
    /\ attempt' = [attempt EXCEPT ![n] = 0]

\* no unique index
NameNeverTaken(n) == FALSE

\* the unique index on users.name
NameTaken(n) == n \in UserNames

\* the store answers prisma.user.create({data: {name: n}}): a new row, or P2002
\* because of the unique index on users.name
UserCreate(n) ==
    /\ n \in DOMAIN userCreationMutex
    /\ userCreationMutex[n] = "create"
    /\ inserts' = [inserts EXCEPT ![n] = @ - 1]
    /\ IF ~NameTaken(n)
       THEN /\ users' = Append(users, n)
            /\ userCache' = MapSet(userCache, n, Len(users) + 1)
            /\ ResolveUser(n, Len(users) + 1)
       ELSE /\ userCreationMutex' = MapSet(userCreationMutex, n, "find")
            /\ UNCHANGED <<users, userCache, userMap, pending, pc, attempts, attempt>>
    /\ UNCHANGED <<friendships, referrals, logs, cacheStale, batch, snap, txRef,
                   txFriend, issued, outcome, ctlVars, okEvents, runs>>

\* a lookup whose result is not cached
CacheNotSet(cache, n, id) == cache

\* this.userCache.set(name, existingUser.id)
CacheExisting(cache, n, id) == MapSet(cache, n, id)

\* the store answers the findUnique sent after P2002
UserFind(n) ==
    /\ n \in DOMAIN userCreationMutex
    /\ userCreationMutex[n] = "find"
    /\ userCache' = CacheExisting(userCache, n, UserIdOf(n))
    /\ ResolveUser(n, UserIdOf(n))
    /\ UNCHANGED <<storeVars, cacheStale, batch, snap, txRef, txFriend, issued, inserts,
                   outcome, ctlVars, okEvents, runs>>

(* --------------------------- the transaction --------------------------- *)

\* createMany that inserts every row of the list
KeepDuplicates(rows, existing) == rows

\* createMany that skips the rows repeated in the list, not those in the table
SkipListDuplicates(rows, existing) == Distinct(rows)

\* createMany with skipDuplicates (INSERT ... ON CONFLICT DO NOTHING): the rows of
\* the list that are inserted, given the keys the table holds
RECURSIVE SkipDuplicates(_, _)
SkipDuplicates(rows, existing) ==
    IF rows = <<>> THEN <<>>
    ELSE IF Head(rows) \in existing
         THEN SkipDuplicates(Tail(rows), existing)
         ELSE <<Head(rows)>> \o SkipDuplicates(Tail(rows), existing \cup {Head(rows)})

\* updated_at = NOW() in a statement that writes the row of key k
WriteTime(visible, k) ==
    IF k \in FriendKeys(visible)
    THEN (CHOOSE r \in visible : FriendKey(r) = k).updatedAt + 1
    ELSE 1

\* ON CONFLICT (user1_id, user2_id) DO UPDATE SET status = 'ACTIVE', updated_at = NOW()
UpsertActive(visible, written, keys) ==
    Overlay(written, {FriendRow(k, "ACTIVE", WriteTime(visible, k)) : k \in keys})

\* the rows matched by WHERE (... OR ...), whatever their status
MatchedAnyStatus(visible, keys) ==
    {r \in visible : FriendKey(r) \in keys}

\* the rows matched by WHERE (... OR ...) AND status = 'ACTIVE'
MatchedActive(visible, keys) ==
    {r \in visible : FriendKey(r) \in keys /\ r.status = "ACTIVE"}

\* SET status = 'INACTIVE' on the matched rows
SetInactive(written, matched) ==
    Overlay(written, {FriendRow(FriendKey(r), "INACTIVE", r.updatedAt + 1) : r \in matched})

LockedByOther(t, key) == \E u \in Tasks \ {t} : key \in FriendKeys(txFriend[u])

RunRecord(b, out, us, fs, rs, before, after) ==
    [batch |-> b, outcome |-> out, users |-> us, friendships |-> fs,
     referrals |-> rs, logsBefore |-> before, logsAfter |-> after]

AppendRun(rec) == IF Len(runs) = 2 THEN <<runs[2], rec>> ELSE Append(runs, rec)

\* processBatch rethrows the error and the writes of the transaction stay pending
FailLeavesWrites(t, error) ==
    /\ UNCHANGED <<txRef, txFriend>>
    /\ pc' = [pc EXCEPT ![t] = "idle"]
    /\ outcome' = [outcome EXCEPT ![t] = error]
    /\ runs' = AppendRun(RunRecord(batch[t], error, users, friendships, referrals,
                                   Len(logs), Len(logs)))

\* the transaction is rolled back and processBatch rethrows the error
Fail(t, error) ==
    /\ txRef' = [txRef EXCEPT ![t] = <<>>]
    /\ txFriend' = [txFriend EXCEPT ![t] = {}]
    /\ pc' = [pc EXCEPT ![t] = "idle"]
    /\ outcome' = [outcome EXCEPT ![t] = error]
    /\ runs' = AppendRun(RunRecord(batch[t], error, users, friendships, referrals,
                                   Len(logs), Len(logs)))

\* tx.referral.createMany({data, skipDuplicates: true}); an insert waits for a
\* transaction that has inserted the same key and is not over
Referrals(t) ==
    LET bd == preprocessBatch(batch[t])
        rows == referralData(bd, userMap[t])
    IN  /\ pc[t] = "referrals"
        /\ \A u \in Tasks \ {t} : Range(rows) \cap Range(txRef[u]) = {}
        /\ txRef' = [txRef EXCEPT ![t] = SkipDuplicates(rows, Range(referrals))]
        /\ issued' = [issued EXCEPT ![t] = Append(@, "referrals")]
        /\ pc' = [pc EXCEPT ![t] = NextStage(bd, "referrals")]
        /\ UNCHANGED <<storeVars, userCache, cacheStale, userCreationMutex, batch, snap,
                       userMap, pending, txFriend, outcome, callVars, ctlVars,
                       okEvents, runs>>

\* INSERT INTO friendships ... VALUES ... ON CONFLICT (user1_id, user2_id)
\* DO UPDATE SET status = 'ACTIVE': PostgreSQL rejects a VALUES list that holds a key
\* twice (cardinality_violation: the command cannot affect a row a second time); the
\* statement waits for a transaction that has written one of its keys and is not over
Friendships(t) ==
    LET bd == preprocessBatch(batch[t])
        keys == friendshipData(bd, userMap[t])
    IN  /\ pc[t] = "friendships"
        /\ issued' = [issued EXCEPT ![t] = Append(@, "friendships")]
        /\ IF HasDuplicates(keys)
           THEN /\ Fail(t, "cardinality_violation")
           ELSE /\ \A k \in Range(keys) : ~LockedByOther(t, k)
                /\ txFriend' = [txFriend EXCEPT ![t] = UpsertActive(Overlay(friendships, @), @, Range(keys))]
                /\ pc' = [pc EXCEPT ![t] = NextStage(bd, "friendships")]
                /\ UNCHANGED <<txRef, outcome, runs>>
        /\ UNCHANGED <<storeVars, userCache, cacheStale, userCreationMutex, batch, snap,
                       userMap, pending, callVars, ctlVars, okEvents>>

\* UPDATE friendships SET status = 'INACTIVE', updated_at = NOW()
\* WHERE (... OR ...) AND status = 'ACTIVE': it sees the committed rows and the rows of
\* its own transaction, and waits for a transaction that has written a row it matches
Unfriendships(t) ==
    LET bd == preprocessBatch(batch[t])
        keys == Range(unfriendshipData(bd, userMap[t]))
        matched == MatchedActive(Overlay(friendships, txFriend[t]), keys)
    IN  /\ pc[t] = "unfriendships"
        /\ \A r \in matched : ~LockedByOther(t, FriendKey(r))
        /\ txFriend' = [txFriend EXCEPT ![t] = SetInactive(@, matched)]
        /\ issued' = [issued EXCEPT ![t] = Append(@, "unfriendships")]
        /\ pc' = [pc EXCEPT ![t] = NextStage(bd, "unfriendships")]
        /\ UNCHANGED <<storeVars, userCache, cacheStale, userCreationMutex, batch, snap,
                       userMap, pending, txRef, outcome, callVars, ctlVars,
                       okEvents, runs>>

\* tx.transactionLog.createMany({data}), the last statement of the callback, and the
\* COMMIT that makes the rows of the transaction visible
TransactionLogs(t) ==
    LET bd == preprocessBatch(batch[t])
    IN  /\ pc[t] = "logs"
        /\ logs' = logs \o logData(bd, userMap[t])
        /\ friendships' = Overlay(friendships, txFriend[t])
        /\ referrals' = referrals \o txRef[t]
        /\ txRef' = [txRef EXCEPT ![t] = <<>>]
        /\ txFriend' = [txFriend EXCEPT ![t] = {}]
        /\ issued' = [issued EXCEPT ![t] = Append(@, "logs")]
        /\ pc' = [pc EXCEPT ![t] = "idle"]
        /\ outcome' = [outcome EXCEPT ![t] = "ok"]
        /\ okEvents' = okEvents \o batch[t]
        /\ runs' = AppendRun(RunRecord(batch[t], "ok", users, friendships', referrals',
                                       Len(logs), Len(logs')))
        /\ UNCHANGED <<users, userCache, cacheStale, userCreationMutex, batch, snap,
                       userMap, pending, callVars, ctlVars>>

\* the errors the store raises in a transaction: 40P01 "deadlock detected", and the
\* others (timeout, lost connection, ...)
StoreErrors == {"deadlock", "store_error"}

\* the store fails a statement of the transaction: $transaction rolls back and rejects,
\* and processBatch, which calls $transaction once and outside retryOnDeadlock,
\* rethrows.  The store picks a deadlock victim only among transactions that wait for
\* one another, so another transaction is open then.
TxAbort(t, error) ==
    /\ pc[t] \in TxStages
    /\ error = "deadlock" => \E u \in Tasks \ {t} : pc[u] \in TxStages
    /\ Fail(t, error)
    /\ UNCHANGED <<storeVars, userCache, cacheStale, userCreationMutex, batch, snap,
                   userMap, pending, issued, callVars, ctlVars, okEvents>>

\* time passes until the cache is older than CACHE_TTL
TimePasses ==
    /\ ~cacheStale
    /\ cacheStale' = TRUE
    /\ UNCHANGED <<storeVars, userCache, userCreationMutex, pc, batch, snap, userMap,
                   pending, txRef, txFriend, issued, outcome, callVars, ctlVars,
                   okEvents, runs>>

Min(a, b) == IF a < b THEN a ELSE b

Next ==
    \/ \E t \in Tasks : \E n \in 1..Min(budget, MaxBatchLen) :
          \E b \in Batches[n] : Begin(t, b)
    \/ \E t \in Tasks : Replay(t)
    \/ \E t \in Tasks : RefreshRead(t)
    \/ \E t \in Tasks : RefreshApply(t)
    \/ \E n \in Names : UserCreate(n)
    \/ \E n \in Names : UserFind(n)
    \/ \E t \in Tasks : Referrals(t)
    \/ \E t \in Tasks : Friendships(t)
    \/ \E t \in Tasks : Unfriendships(t)
    \/ \E t \in Tasks : TransactionLogs(t)
    \/ \E t \in Tasks : \E error \in StoreErrors : TxAbort(t, error)
    \/ TimePasses

Spec == Init /\ [][Next]_vars

\* tasks that may also hand an empty batch to processBatch, on a store that answers
\* every request of a transaction
EmptyNext ==
    \/ \E t \in Tasks : Begin(t, <<>>)
    \/ \E t \in Tasks : \E n \in 1..Min(budget, MaxBatchLen) :
          \E b \in Batches[n] : Begin(t, b)
    \/ \E t \in Tasks : RefreshRead(t)
    \/ \E t \in Tasks : RefreshApply(t)
    \/ \E n \in Names : UserCreate(n)
    \/ \E n \in Names : UserFind(n)
    \/ \E t \in Tasks : Referrals(t)
    \/ \E t \in Tasks : Friendships(t)
    \/ \E t \in Tasks : Unfriendships(t)
    \/ \E t \in Tasks : TransactionLogs(t)
    \/ TimePasses

EmptySpec == Init /\ [][EmptyNext]_vars

\* one caller that awaits each processBatch before the next call: every create of
\* createUserSafely then follows a cache miss on a cache that holds every User row, so
\* it never meets the unique index and the findUnique after P2002 is never sent
SeqNext ==
    \/ \E n \in 1..Min(budget, MaxBatchLen) : \E b \in Batches[n] : Begin(1, b)
    \/ RefreshRead(1)
    \/ RefreshApply(1)
    \/ \E n \in Names : UserCreate(n)
    \/ Referrals(1)
    \/ Friendships(1)
    \/ Unfriendships(1)
    \/ TransactionLogs(1)
    \/ \E error \in StoreErrors : TxAbort(1, error)
    \/ TimePasses

SeqSpec == InitSeq /\ [][SeqNext]_vars

\* the same caller, which may hand the batch it has projected to processBatch again,
\* on a store that answers every request of a transaction
ReplayNext ==
    \/ \E n \in 1..Min(budget, MaxBatchLen) : \E b \in Batches[n] : Begin(1, b)
    \/ Replay(1)
    \/ RefreshRead(1)
    \/ RefreshApply(1)
    \/ \E n \in Names : UserCreate(n)
    \/ Referrals(1)
    \/ Friendships(1)
    \/ Unfriendships(1)
    \/ TransactionLogs(1)
    \/ TimePasses

ReplaySpec == InitSeq /\ [][ReplayNext]_vars

\* the argument maxRetries of the retryOnDeadlock of createUserSafely
maxRetries == 3

\* a retryOnDeadlock that retries whatever the error
RetriesAnyError(isDeadlock, a) == a < maxRetries - 1

\* retryOnDeadlock: if (isDeadlock && attempt < maxRetries - 1)
ShouldRetry(isDeadlock, a) == isDeadlock /\ a < maxRetries - 1

\* the last two runs once the processBatch of the tasks ts have thrown `error`, in
\* the order of the tasks
RECURSIVE RunsAfter(_, _, _)
RunsAfter(rs, ts, error) ==
    IF ts = {} THEN rs
    ELSE LET t == CHOOSE x \in ts : \A y \in ts : x <= y
             rec == RunRecord(batch[t], error, users, friendships, referrals,
                              Len(logs), Len(logs))
         IN  RunsAfter(IF Len(rs) = 2 THEN <<rs[2], rec>> ELSE Append(rs, rec),
                       ts \ {t}, error)

\* a rejection that takes the users of the failing batches out of the cache
RejectForgets(n, error) ==
    LET failing == {t \in Tasks : n \in pending[t]}
        forgotten == UNION {DOMAIN userMap[t] : t \in failing}
    IN  /\ userCreationMutex' = MapDelete(userCreationMutex, n)
        /\ userCache' = [k \in DOMAIN userCache \ forgotten |-> userCache[k]]
        /\ attempt' = [attempt EXCEPT ![n] = 0]
        /\ pending' = [t \in Tasks |-> IF t \in failing THEN {} ELSE pending[t]]
        /\ pc' = [t \in Tasks |-> IF t \in failing THEN "idle" ELSE pc[t]]
        /\ outcome' = [t \in Tasks |-> IF t \in failing THEN error ELSE outcome[t]]
        /\ runs' = RunsAfter(runs, failing, error)

\* the promise of createUserSafely(n) rejects with `error`: the mutex entry is
\* deleted, the Promise.all of every ensureUsersExist that awaits it rejects, and
\* processBatch rethrows before it has opened its transaction; the cache keeps what
\* the creations that succeeded have set
Reject(n, error) ==
    LET failing == {t \in Tasks : n \in pending[t]}
    IN  /\ userCreationMutex' = MapDelete(userCreationMutex, n)
        /\ UNCHANGED userCache
        /\ attempt' = [attempt EXCEPT ![n] = 0]
        /\ pending' = [t \in Tasks |-> IF t \in failing THEN {} ELSE pending[t]]
        /\ pc' = [t \in Tasks |-> IF t \in failing THEN "idle" ELSE pc[t]]
        /\ outcome' = [t \in Tasks |-> IF t \in failing THEN error ELSE outcome[t]]
        /\ runs' = RunsAfter(runs, failing, error)

\* the store fails prisma.user.create({data: {name: n}}) with an error that is not
\* P2002: retryOnDeadlock waits and retries after a deadlock, as long as attempts are
\* left, and throws the error otherwise
UserFails(n, error) ==
    /\ n \in DOMAIN userCreationMutex
    /\ userCreationMutex[n] = "create"
    /\ inserts' = [inserts EXCEPT ![n] = @ - 1]
    /\ IF ShouldRetry(error = "deadlock", attempt[n])
       THEN /\ userCreationMutex' = MapSet(userCreationMutex, n, "backoff")
            /\ UNCHANGED <<userCache, attempt, pending, pc, outcome, runs>>
       ELSE Reject(n, error)
    /\ UNCHANGED <<storeVars, cacheStale, batch, snap, userMap, txRef,
                   txFriend, issued, attempts, ctlVars, okEvents>>

\* the backoff of retryOnDeadlock is over: the next attempt sends the INSERT again
UserRetry(n) ==
    /\ n \in DOMAIN userCreationMutex
    /\ userCreationMutex[n] = "backoff"
    /\ userCreationMutex' = MapSet(userCreationMutex, n, "create")
    /\ attempt' = [attempt EXCEPT ![n] = @ + 1]
    /\ inserts' = [inserts EXCEPT ![n] = @ + 1]
    /\ UNCHANGED <<storeVars, userCache, cacheStale, batch, snap, userMap, pending, pc,
                   outcome, runs, txRef, txFriend, issued, attempts, ctlVars, okEvents>>

\* the tasks of the process and a store that fails creations of users, and nothing
\* else; no batch is handed to processBatch twice
FailingNext ==
    \/ \E t \in Tasks : \E n \in 1..Min(budget, MaxBatchLen) :
          \E b \in Batches[n] : Begin(t, b)
    \/ \E t \in Tasks : RefreshRead(t)
    \/ \E t \in Tasks : RefreshApply(t)
    \/ \E n \in Names : UserCreate(n)
    \/ \E n \in Names : UserFind(n)
    \/ \E n \in Names : \E error \in StoreErrors : UserFails(n, error)
    \/ \E n \in Names : UserRetry(n)
    \/ \E t \in Tasks : Referrals(t)
    \/ \E t \in Tasks : Friendships(t)
    \/ \E t \in Tasks : Unfriendships(t)
    \/ \E t \in Tasks : TransactionLogs(t)
    \/ TimePasses

FailingSpec == Init /\ [][FailingNext]_vars

\* another client of the database inserts a User row: the table gives it the next id
\* and its unique index refuses a name it holds; the process is not told
OutsideCreate(n) ==
    /\ ~NameTaken(n)
    /\ users' = Append(users, n)
    /\ UNCHANGED <<friendships, referrals, logs, userCache, cacheStale,
                   userCreationMutex, pc, batch, snap, userMap, pending, txRef,
                   txFriend, issued, outcome, callVars, ctlVars, okEvents, runs>>

\* the tasks of the process and a database that other clients write too, on a store
\* that answers every request of a transaction
SharedNext ==
    \/ \E n \in Names : OutsideCreate(n)
    \/ \E t \in Tasks : \E n \in 1..Min(budget, MaxBatchLen) :
          \E b \in Batches[n] : Begin(t, b)
    \/ \E t \in Tasks : RefreshRead(t)
    \/ \E t \in Tasks : RefreshApply(t)
    \/ \E n \in Names : UserCreate(n)
    \/ \E n \in Names : UserFind(n)
    \/ \E t \in Tasks : Referrals(t)
    \/ \E t \in Tasks : Friendships(t)
    \/ \E t \in Tasks : Unfriendships(t)
    \/ \E t \in Tasks : TransactionLogs(t)
    \/ TimePasses

SharedSpec == Init /\ [][SharedNext]_vars

(* ----------------------------- the payloads ---------------------------- *)

\* An item of the queue is a string.  A string that is a JSON text is [json |-> v],
\* v being the value it denotes: JsonNull, or an object, a record of JSON strings
\* Str(s) and JSON numbers Num(i).  A string that is no JSON text is [text |-> s].

Str(s) == [str |-> s]

Num(i) == [num |-> i]

JsonNull == [isNull |-> TRUE]

\* the empty string, which is no JSON text
EmptyString == [text |-> ""]

\* another string that is no JSON text
NotJson == [text |-> "invalid json"]

\* JSON.stringify of an event: its names are strings, created_at is a number
Stringify(transaction) ==
    [json |-> [f \in DOMAIN transaction |->
                 IF f = "created_at" THEN Num(transaction[f]) ELSE Str(transaction[f])]]

\* JSON.parse returns a value (the other strings make it throw a SyntaxError)
IsJson(jsonString) == "json" \in DOMAIN jsonString

\* the object a value denotes once a type guard has accepted it
EventOf(parsed) ==
    [f \in DOMAIN parsed |->
        IF "str" \in DOMAIN parsed[f] THEN parsed[f].str ELSE parsed[f].num]

\* event?.f is defined
Has(event, f) == event # JsonNull /\ f \in DOMAIN event

\* event?.type === t
TypeIs(event, t) == Has(event, "type") /\ event.type = Str(t)

\* a guard that takes every value for a string
AnyType(event, f) == TRUE

\* typeof event?.f === "string"
IsString(event, f) == Has(event, f) /\ "str" \in DOMAIN event[f]

isRegisterEvent(event) == TypeIs(event, "register") /\ IsString(event, "name")

isReferralEvent(event) ==
    /\ TypeIs(event, "referral")
    /\ IsString(event, "referredBy")
    /\ IsString(event, "user")

isAddFriendEvent(event) ==
    /\ TypeIs(event, "addfriend")
    /\ IsString(event, "user1_name")
    /\ IsString(event, "user2_name")

isUnfriendEvent(event) ==
    /\ TypeIs(event, "unfriend")
    /\ IsString(event, "user1_name")
    /\ IsString(event, "user2_name")

isConnectionEvent(event) ==
    \/ isRegisterEvent(event)
    \/ isReferralEvent(event)
    \/ isAddFriendEvent(event)
    \/ isUnfriendEvent(event)

\* parseTransaction returns the parsed event, or throws (ok is FALSE) when JSON.parse
\* throws or when no guard accepts the value
parseTransaction(jsonString) ==
    IF IsJson(jsonString) /\ isConnectionEvent(jsonString.json)
    THEN [ok |-> TRUE, event |-> EventOf(jsonString.json)]
    ELSE [ok |-> FALSE]

\* the fields an object of a payload may have
JsonFields ==
    {"type", "name", "referredBy", "user", "user1_name", "user2_name", "created_at"}

\* the values of its type: the four event types, another string, a number
TypeValues ==
    {Str("register"), Str("referral"), Str("addfriend"), Str("unfriend"),
     Str("garbage"), Num(1)}

\* the values of a name field: a string, a number
FieldValues == {Str(NamePool[1]), Num(1)}

\* the objects with any of the fields, each with any of its values
JsonObjects ==
    UNION {{[f \in D |-> IF f = "type" THEN tv
                         ELSE IF f = "created_at" THEN Num(1)
                         ELSE g[f]] : tv \in TypeValues, g \in [D -> FieldValues]} :
           D \in SUBSET JsonFields}

\* the strings parseTransaction is applied to
Payloads ==
    {EmptyString, NotJson, [json |-> JsonNull]} \cup {[json |-> o] : o \in JsonObjects}

\* a caller that holds one payload and has not applied parseTransaction yet
InitDecode ==
    /\ InitStore
    /\ InitWorker
    /\ queue \in {<<jsonString>> : jsonString \in Payloads}
    /\ concurrency = 1
    /\ budget = 0

\* parseTransaction(jsonString): the caller keeps the event it returns, or logs the
\* error it throws
Parse ==
    /\ popped[1] = <<>>
    /\ parseErrors = 0
    /\ LET result == parseTransaction(queue[1])
       IN  /\ popped' = [popped EXCEPT ![1] = IF result.ok THEN <<result.event>>
                                               ELSE <<>>]
           /\ parseErrors' = IF result.ok THEN 0 ELSE 1
    /\ UNCHANGED <<storeVars, userCache, cacheStale, userCreationMutex, pc, batch, snap,
                   userMap, pending, txRef, txFriend, issued, callVars, outcome,
                   okEvents, runs, concurrency, budget, replays, queue, isRunning, wpc,
                   popI, awaiting, stopPc, processedCount, monitor>>

DecodeSpec == InitDecode /\ [][Parse]_vars

(* ------------------------------ the queue ------------------------------ *)

\* an event as the producer queued it; created_at tells the items of the queue apart
Stamp(e, i) ==
    [x \in DOMAIN e \cup {"created_at"} |-> IF x = "created_at" THEN i ELSE e[x]]

\* the list after the producer has pushed b[1], then b[2], ...: b[1] is its last item
QueueOf(b) ==
    [i \in 1..Len(b) |-> Stringify(Stamp(b[Len(b) + 1 - i], Len(b) + 1 - i))]

\* the events the producer has queued: one of each type, on one pair of names
QueueEvents ==
    {RegisterEvent(NamePool[1]), ReferralEvent(NamePool[1], NamePool[2]),
     AddFriendEvent(NamePool[1], NamePool[2]), UnfriendEvent(NamePool[1], NamePool[2])}

\* a JSON text that denotes no event: its type is unknown
Garbage == [json |-> [type |-> Str("garbage")]]

\* items of the queue that are no event: another client of the list has pushed them
Malformed == {EmptyString, Garbage}

\* the list q with the items at the positions of m replaced by those of m
Overwrite(q, m) == [i \in 1..Len(q) |-> IF i \in DOMAIN m THEN m[i] ELSE q[i]]

\* k results that are all the last item of the list
PopLastOnly(q, k) == [i \in 1..k |-> q[Len(q)]]

\* the results of k RPOPs, in pop order
PopOrder(q, k) == [i \in 1..k |-> q[Len(q) + 1 - i]]

\* pops that remove nothing
RemoveNone(q, k) == q

\* the list after k RPOPs
RemoveTail(q, k) == SubSeq(q, 1, Len(q) - k)

(* ------------------------------ the Worker ----------------------------- *)

\* the cap of the chunk size in workerProcess
MaxChunk == 5000

CeilDiv(a, b) == (a + b - 1) \div b

\* Math.min(5000, Math.ceil(transactions.length / 4))
ChunkSize(len) == Min(MaxChunk, CeilDiv(len, 4))

RECURSIVE chunkArray(_, _)
chunkArray(array, chunkSize) ==
    IF Len(array) = 0 THEN <<>>
    ELSE IF Len(array) <= chunkSize THEN <<array>>
    ELSE <<SubSeq(array, 1, chunkSize)>>
            \o chunkArray(SubSeq(array, chunkSize + 1, Len(array)), chunkSize)

\* the processBatch invocations that are over and that no Promise.all awaits
FreeTasks ==
    {t \in Tasks : pc[t] = "idle" /\ \A w \in WorkerIds : t \notin awaiting[w]}

FreeTask(i) == CHOOSE t \in FreeTasks : Cardinality({u \in FreeTasks : u < t}) = i - 1

\* chunks.map((chunk) => processBatch(chunk)): every call runs to its first store
\* request before any answer of the store is handled; assign[t] is the chunk of t
CallAll(assign) ==
    LET ts == DOMAIN assign
        bd(t) == preprocessBatch(assign[t])
        hits(t) == {n \in bd(t).newUsers : MapGet(userCache, n) # 0}
        usersToCreate(t) == bd(t).newUsers \ hits(t)
        started == {n \in UNION {usersToCreate(t) : t \in ts} : ~InFlight(n)}
    IN  /\ batch' = [t \in Tasks |-> IF t \in ts THEN assign[t] ELSE batch[t]]
        /\ outcome' = [t \in Tasks |-> IF t \in ts THEN "none" ELSE outcome[t]]
        /\ issued' = [t \in Tasks |-> IF t \in ts THEN <<>> ELSE issued[t]]
        /\ IF cacheStale
           THEN /\ pc' = [t \in Tasks |-> IF t \in ts THEN "refresh" ELSE pc[t]]
                /\ attempts' = [t \in Tasks |-> IF t \in ts THEN 0 ELSE attempts[t]]
                /\ UNCHANGED <<userMap, pending, userCreationMutex, inserts, attempt>>
           ELSE /\ userMap' = [t \in Tasks |->
                                 IF t \in ts THEN [n \in hits(t) |-> userCache[n]]
                                 ELSE userMap[t]]
                /\ pending' = [t \in Tasks |->
                                 IF t \in ts THEN usersToCreate(t) ELSE pending[t]]
                /\ userCreationMutex' =
                      [n \in DOMAIN userCreationMutex \cup started |->
                          IF n \in started THEN "create" ELSE userCreationMutex[n]]
                /\ inserts' = [n \in Names |->
                                 inserts[n] + IF n \in started THEN 1 ELSE 0]
                /\ attempt' = [n \in Names |-> IF n \in started THEN 0 ELSE attempt[n]]
                /\ pc' = [t \in Tasks |->
                            IF t \notin ts THEN pc[t]
                            ELSE IF usersToCreate(t) = {} THEN NextStage(bd(t), "begin")
                            ELSE "users"]
                /\ attempts' = [t \in Tasks |->
                                  IF t \notin ts THEN attempts[t]
                                  ELSE IF usersToCreate(t) = {} THEN 1 ELSE 0]
        /\ UNCHANGED <<storeVars, userCache, cacheStale, snap, txRef, txFriend,
                       okEvents, runs>>

\* what a step of the Worker outside processBatch leaves alone
callState == <<storeVars, userCache, cacheStale, userCreationMutex, pc, batch, snap,
               userMap, pending, txRef, txFriend, issued, callVars, outcome,
               okEvents, runs>>

\* a loop that goes on whatever the flag
LoopGoesOn(w, running) == [wpc EXCEPT ![w] = "pop"]

\* a loop that ends whatever the flag
LoopEnds(w, running) == [wpc EXCEPT ![w] = "stopped"]

\* while (this.isRunning): the loop goes on with popBatch, which sends the pipeline
\* of rPops, or ends
LoopTop(w, running) == [wpc EXCEPT ![w] = IF running THEN "pop" ELSE "stopped"]

\* popBatch returns `transactions` to workerProcess, which splits a non-empty batch
\* in chunks and calls processBatch on each, or sleeps 50 ms
PopReturns(w, transactions) ==
    /\ popped' = [popped EXCEPT ![w] = transactions]
    /\ popI' = [popI EXCEPT ![w] = 0]
    /\ IF Len(transactions) > 0
       THEN LET chunks == chunkArray(transactions, ChunkSize(Len(transactions)))
                ts == {FreeTask(i) : i \in 1..Len(chunks)}
                assign == [t \in ts |->
                             chunks[CHOOSE i \in 1..Len(chunks) : FreeTask(i) = t]]
            IN  /\ Len(chunks) <= Cardinality(FreeTasks)
                /\ CallAll(assign)
                /\ wpc' = [wpc EXCEPT ![w] = "process"]
                /\ awaiting' = [awaiting EXCEPT ![w] = ts]
       ELSE /\ wpc' = [wpc EXCEPT ![w] = "sleep50"]
            /\ UNCHANGED <<awaiting, callState>>
    /\ UNCHANGED <<isRunning, stopPc, processedCount, concurrency, budget, replays, monitor>>

\* Worker.start: every workerProcess runs to its first popBatch, and
\* startPerformanceMonitoring sets its interval
Start ==
    /\ stopPc = "none"
    /\ \A w \in WorkerIds : wpc[w] = "new"
    /\ isRunning' = TRUE
    /\ wpc' = [w \in WorkerIds |-> "pop"]
    /\ monitor' = [monitor EXCEPT !.set = TRUE]
    /\ UNCHANGED <<callState, parseErrors, queue, popped, popI, awaiting, stopPc,
                   processedCount,
                   concurrency, budget, replays>>

\* `if (result)`: null and the empty string are falsy
Truthy(result) == result # EmptyString

\* a loop over the results that ends at the first result it does not push
RECURSIVE DecodedUntilSkip(_)
DecodedUntilSkip(results) ==
    IF results = <<>> THEN <<>>
    ELSE LET result == Head(results)
         IN  IF Truthy(result) /\ parseTransaction(result).ok
             THEN <<parseTransaction(result).event>> \o DecodedUntilSkip(Tail(results))
             ELSE <<>>

\* the loop over the results of the pipeline: a falsy result is skipped, a result
\* that parseTransaction rejects is logged and skipped, the others are pushed to
\* `transactions` in result order
RECURSIVE Decoded(_)
Decoded(results) ==
    IF results = <<>> THEN <<>>
    ELSE LET result == Head(results)
         IN  (IF Truthy(result) /\ parseTransaction(result).ok
              THEN <<parseTransaction(result).event>>
              ELSE <<>>) \o Decoded(Tail(results))

\* the results of the pipeline that parseTransaction rejects
ParseFailures(results) ==
    Cardinality({i \in 1..Len(results) :
                    Truthy(results[i]) /\ ~parseTransaction(results[i]).ok})

\* Redis executes the MULTI/EXEC of batchSize rPops and popBatch gets the results;
\* the null results of the pops past the end of the list are skipped
Pipeline(w) ==
    LET k == Min(BatchSize, Len(queue))
    IN  /\ wpc[w] = "pop"
        /\ queue' = RemoveTail(queue, k)
        /\ parseErrors' = parseErrors + ParseFailures(PopOrder(queue, k))
        /\ PopReturns(w, Decoded(PopOrder(queue, k)))

\* pipeline.exec() rejects, before Redis has run the pops or after (the results are
\* lost); popBatch logs and sends the first rPop of the serial fallback
PipelineFails(w, executed) ==
    LET k == Min(BatchSize, Len(queue))
    IN  /\ wpc[w] = "pop"
        /\ queue' = IF executed THEN RemoveTail(queue, k) ELSE queue
        /\ wpc' = [wpc EXCEPT ![w] = "fallback"]
        /\ popped' = [popped EXCEPT ![w] = <<>>]
        /\ popI' = [popI EXCEPT ![w] = 0]
        /\ UNCHANGED <<callState, parseErrors, isRunning, awaiting, stopPc,
                       processedCount,
                       concurrency, budget, replays, monitor>>

\* Redis answers an rPop of the fallback loop.  A truthy result is parsed, and
\* pushed to `transactions` or logged, and the loop goes on until batchSize pops are
\* done; a falsy result, null or an item that is the empty string, breaks the loop
FallbackPop(w) ==
    /\ wpc[w] = "fallback"
    /\ IF Len(queue) = 0
       THEN /\ UNCHANGED <<queue, parseErrors>>
            /\ PopReturns(w, popped[w])
       ELSE LET result == queue[Len(queue)]
                parsed == parseTransaction(result)
                got == IF parsed.ok THEN Append(popped[w], parsed.event) ELSE popped[w]
            IN  /\ queue' = RemoveTail(queue, 1)
                /\ IF ~Truthy(result)
                   THEN /\ UNCHANGED parseErrors
                        /\ PopReturns(w, popped[w])
                   ELSE /\ parseErrors' = parseErrors + IF parsed.ok THEN 0 ELSE 1
                        /\ IF popI[w] + 1 = BatchSize
                           THEN PopReturns(w, got)
                           ELSE /\ popped' = [popped EXCEPT ![w] = got]
                                /\ popI' = [popI EXCEPT ![w] = @ + 1]
                                /\ UNCHANGED <<callState, isRunning, wpc, awaiting,
                                               stopPc, processedCount, concurrency,
                                               budget, replays, monitor>>

\* a popBatch that lets the error of the rPop go up to the catch of workerProcess
FallbackRaises(w, executed) ==
    /\ wpc[w] = "fallback"
    /\ queue' = IF executed THEN RemoveTail(queue, Min(1, Len(queue))) ELSE queue
    /\ wpc' = [wpc EXCEPT ![w] = "sleep200"]
    /\ UNCHANGED <<callState, parseErrors, isRunning, popped, popI, awaiting, stopPc,
                   processedCount, concurrency, budget, replays, monitor>>

\* an rPop of the fallback loop rejects, before Redis has popped or after: popBatch
\* logs and returns what the loop has collected
FallbackFails(w, executed) ==
    /\ wpc[w] = "fallback"
    /\ queue' = IF executed THEN RemoveTail(queue, Min(1, Len(queue))) ELSE queue
    /\ UNCHANGED parseErrors
    /\ PopReturns(w, popped[w])

Returns(t) == pc[t] = "idle" /\ outcome[t] = "ok"

Throws(t) == pc[t] = "idle" /\ outcome[t] \notin {"none", "ok"}

\* every processBatch of the iteration has returned: processedCount grows and the
\* loop goes to its top
ProcessDone(w) ==
    /\ wpc[w] = "process"
    /\ \A t \in awaiting[w] : Returns(t)
    /\ processedCount' = processedCount + Len(popped[w])
    /\ awaiting' = [awaiting EXCEPT ![w] = {}]
    /\ wpc' = LoopTop(w, isRunning)
    /\ UNCHANGED <<callState, parseErrors, queue, isRunning, popped, popI, stopPc,
                   concurrency, budget, replays, monitor>>

\* a processBatch of the iteration has thrown: the await of workerProcess throws,
\* whatever the other calls of the Promise.all do, and the catch logs and sleeps 200 ms
ProcessFailed(w) ==
    /\ wpc[w] = "process"
    /\ \E t \in awaiting[w] : Throws(t)
    /\ awaiting' = [awaiting EXCEPT ![w] = {}]
    /\ wpc' = [wpc EXCEPT ![w] = "sleep200"]
    /\ UNCHANGED <<callState, parseErrors, queue, isRunning, popped, popI, stopPc,
                   processedCount,
                   concurrency, budget, replays, monitor>>

\* the sleep of 50 ms or of 200 ms is over
Wake(w) ==
    /\ wpc[w] \in {"sleep50", "sleep200"}
    /\ wpc' = LoopTop(w, isRunning)
    /\ UNCHANGED <<callState, parseErrors, queue, isRunning, popped, popI, awaiting,
                   stopPc,
                   processedCount, concurrency, budget, replays, monitor>>

\* Worker.stop is called: it clears the flag and awaits Promise.all(this.workers)
Stop ==
    /\ stopPc = "none"
    /\ isRunning' = FALSE
    /\ stopPc' = "waiting"
    /\ UNCHANGED <<callState, parseErrors, queue, wpc, popped, popI, awaiting,
                   processedCount,
                   concurrency, budget, replays, monitor>>

\* every workerProcess has returned (or none was started): stop calls
\* redisClient.disconnect()
DisconnectRedis ==
    /\ stopPc = "waiting"
    /\ \A w \in WorkerIds : wpc[w] \in {"new", "stopped"}
    /\ stopPc' = "redis"
    /\ UNCHANGED <<callState, parseErrors, queue, isRunning, wpc, popped, popI,
                   awaiting,
                   processedCount, concurrency, budget, replays, monitor>>

\* the queue connection is closed: stop calls databaseClient.disconnect()
DisconnectDatabase ==
    /\ stopPc = "redis"
    /\ stopPc' = "database"
    /\ UNCHANGED <<callState, parseErrors, queue, isRunning, wpc, popped, popI,
                   awaiting,
                   processedCount, concurrency, budget, replays, monitor>>

\* the store connection is closed: stop returns
StopReturns ==
    /\ stopPc = "database"
    /\ stopPc' = "returned"
    /\ UNCHANGED <<callState, parseErrors, queue, isRunning, wpc, popped, popI,
                   awaiting,
                   processedCount, concurrency, budget, replays, monitor>>

\* a Worker of NumWorkers loops, initialized on a queue of QueueLen items: events,
\* and items that are no event
InitWorkerSpec ==
    /\ InitStore
    /\ InitWorker
    /\ queue \in {Overwrite(QueueOf(b), m) :
                     b \in SeqsOfLen(QueueEvents, QueueLen),
                     m \in UNION {[D -> Malformed] : D \in SUBSET (1..QueueLen)}}
    /\ concurrency = NumWorkers
    /\ budget = 0

\* the Worker in the CACHE_TTL that follows connect(): no processBatch finds the
\* cache stale, so that the cache holds every User row and no create meets the unique
\* index
WorkerNext ==
    \/ Start
    \/ \E w \in WorkerIds : Pipeline(w)
    \/ \E w \in WorkerIds : \E executed \in BOOLEAN : PipelineFails(w, executed)
    \/ \E w \in WorkerIds : FallbackPop(w)
    \/ \E w \in WorkerIds : \E executed \in BOOLEAN : FallbackFails(w, executed)
    \/ \E w \in WorkerIds : ProcessDone(w)
    \/ \E w \in WorkerIds : ProcessFailed(w)
    \/ \E w \in WorkerIds : Wake(w)
    \/ Stop
    \/ DisconnectRedis
    \/ DisconnectDatabase
    \/ StopReturns
    \/ \E n \in Names : UserCreate(n)
    \/ \E t \in Tasks : Referrals(t)
    \/ \E t \in Tasks : Friendships(t)
    \/ \E t \in Tasks : Unfriendships(t)
    \/ \E t \in Tasks : TransactionLogs(t)
    \/ \E t \in Tasks : \E error \in StoreErrors : TxAbort(t, error)

WorkerSpec == InitWorkerSpec /\ [][WorkerNext]_vars

\* the statement of the transaction of t that is in flight gets its answer, or fails
TxStep(t) ==
    \/ Referrals(t)
    \/ Friendships(t)
    \/ Unfriendships(t)
    \/ TransactionLogs(t)
    \/ \E error \in StoreErrors : TxAbort(t, error)

\* a step of the Worker that no caller and no clock decides: a request to the queue
\* or to the store is answered, a timer fires, a promise settles
WorkerStep ==
    \/ \E w \in WorkerIds : Pipeline(w)
    \/ \E w \in WorkerIds : \E executed \in BOOLEAN : PipelineFails(w, executed)
    \/ \E w \in WorkerIds : FallbackPop(w)
    \/ \E w \in WorkerIds : \E executed \in BOOLEAN : FallbackFails(w, executed)
    \/ \E w \in WorkerIds : ProcessDone(w)
    \/ \E w \in WorkerIds : ProcessFailed(w)
    \/ \E w \in WorkerIds : Wake(w)
    \/ DisconnectRedis
    \/ DisconnectDatabase
    \/ StopReturns
    \/ \E t \in Tasks : RefreshRead(t)
    \/ \E t \in Tasks : RefreshApply(t)
    \/ \E n \in Names : UserCreate(n)
    \/ \E n \in Names : UserFind(n)
    \/ \E t \in Tasks : TxStep(t)

\* a request is in flight, a timer is set or a promise can settle: WorkerStep is
\* enabled
InFlightStep ==
    \/ \E w \in WorkerIds : wpc[w] \in {"pop", "fallback", "sleep50", "sleep200"}
    \/ \E w \in WorkerIds :
          /\ wpc[w] = "process"
          /\ \/ \A t \in awaiting[w] : Returns(t)
             \/ \E t \in awaiting[w] : Throws(t)
    \/ stopPc = "waiting" /\ \A w \in WorkerIds : wpc[w] \in {"new", "stopped"}
    \/ stopPc \in {"redis", "database"}
    \/ \E t \in Tasks : pc[t] \in {"refresh", "refreshed"} \cup TxStages
    \/ \E n \in DOMAIN userCreationMutex : userCreationMutex[n] \in {"create", "find"}

\* weak fairness of WorkerStep: as long as a request is in flight, a timer is set or
\* a promise can settle, one of them is handled; nothing is assumed of the calls of
\* start and stop, of the clock of the cache, nor of which step is taken
WorkerFairness == []<>(~InFlightStep) \/ []<><<WorkerStep>>_vars

\* the queue of the fair Worker: a referral and a friend event on one pair of names
InitFair ==
    /\ InitStore
    /\ InitWorker
    /\ queue \in {QueueOf(<<ReferralEvent(NamePool[1], NamePool[2]), e>>) :
                     e \in {AddFriendEvent(NamePool[1], NamePool[2]),
                             UnfriendEvent(NamePool[1], NamePool[2])}}
    /\ concurrency = NumWorkers
    /\ budget = 0

FairSpec == InitFair /\ [][WorkerNext]_vars /\ WorkerFairness

\* a step of the loop of worker w when the queue answers: the pipeline of popBatch
\* returns, the Promise.all of the batch resolves, a sleep is over
LoopStep(w) == Pipeline(w) \/ ProcessDone(w) \/ Wake(w)

\* LoopStep(w) is enabled
LoopReady(w) ==
    \/ wpc[w] \in {"sleep50", "sleep200"}
    \/ wpc[w] = "process" /\ \A t \in awaiting[w] : Returns(t)
    \/ /\ wpc[w] = "pop"
       /\ LET transactions == Decoded(PopOrder(queue, Min(BatchSize, Len(queue))))
          IN  Len(chunkArray(transactions, ChunkSize(Len(transactions))))
                 <= Cardinality(FreeTasks)

\* the store answers the request of processBatch t that is in flight, without error
CallStep(t) ==
    \/ RefreshRead(t)
    \/ RefreshApply(t)
    \/ Referrals(t)
    \/ Friendships(t)
    \/ Unfriendships(t)
    \/ TransactionLogs(t)

\* CallStep(t) is enabled: a request is in flight and waits for no other transaction
CallReady(t) ==
    LET bd == preprocessBatch(batch[t])
    IN  \/ pc[t] \in {"refresh", "refreshed", "logs"}
        \/ /\ pc[t] = "referrals"
           /\ \A u \in Tasks \ {t} :
                 Range(referralData(bd, userMap[t])) \cap Range(txRef[u]) = {}
        \/ /\ pc[t] = "friendships"
           /\ LET keys == friendshipData(bd, userMap[t])
              IN  HasDuplicates(keys) \/ \A k \in Range(keys) : ~LockedByOther(t, k)
        \/ /\ pc[t] = "unfriendships"
           /\ \A r \in MatchedActive(Overlay(friendships, txFriend[t]),
                                     Range(unfriendshipData(bd, userMap[t]))) :
                 ~LockedByOther(t, FriendKey(r))

\* the store answers the create or the findUnique of createUserSafely(n)
CreationStep(n) == UserCreate(n) \/ UserFind(n)

\* CreationStep(n) is enabled
CreationReady(n) == InFlight(n) /\ userCreationMutex[n] \in {"create", "find"}

\* a Worker that is started and never stopped, with a queue and a store that answer
\* every request without error, and no producer
DrainNext ==
    \/ Start
    \/ \E w \in WorkerIds : Pipeline(w)
    \/ \E w \in WorkerIds : ProcessDone(w)
    \/ \E w \in WorkerIds : Wake(w)
    \/ \E t \in Tasks : RefreshRead(t)
    \/ \E t \in Tasks : RefreshApply(t)
    \/ \E n \in Names : UserCreate(n)
    \/ \E n \in Names : UserFind(n)
    \/ \E t \in Tasks : Referrals(t)
    \/ \E t \in Tasks : Friendships(t)
    \/ \E t \in Tasks : Unfriendships(t)
    \/ \E t \in Tasks : TransactionLogs(t)
    \/ TimePasses

\* weak fairness of the steps of every worker loop, of every processBatch and of
\* every user creation: the event loop runs every continuation that is ready, and
\* the queue and the store answer every request that waits for nothing
DrainFairness ==
    /\ \A w \in WorkerIds : []<>(~LoopReady(w)) \/ []<><<LoopStep(w)>>_vars
    /\ \A t \in Tasks : []<>(~CallReady(t)) \/ []<><<CallStep(t)>>_vars
    /\ \A n \in Names : []<>(~CreationReady(n)) \/ []<><<CreationStep(n)>>_vars

DrainSpec == InitWorkerSpec /\ [][DrainNext]_vars /\ DrainFairness

\* 5000 ms have passed since the interval was set or last fired: its callback runs,
\* reads processedCount and startTime, and logs the throughput.  No clearInterval
\* exists for it: startPerformanceMonitoring does not keep the handle
MonitorFires ==
    /\ monitor.set
    /\ monitor.fired < MaxFired
    /\ monitor' = [monitor EXCEPT !.fired = @ + 1]
    /\ UNCHANGED <<callState, parseErrors, queue, isRunning, wpc, popped, popI,
                   awaiting, stopPc, processedCount, concurrency, budget, replays>>

\* the Worker with the timer of its monitoring interval
MonitorNext == WorkerNext \/ MonitorFires

MonitorSpec == InitFair /\ [][MonitorNext]_vars

(* ------------------------------- claims -------------------------------- *)

\* the names of the two users of a friendship row
PairNames(r) == {users[r.user1Id], users[r.user2Id]}

\* the committed friendship rows of the unordered pair of names a, b
RowsOfPair(a, b) == {r \in friendships : PairNames(r) = {a, b}}

IsFriendEvent(e) == e.type \in {"addfriend", "unfriend"}

EventPair(e) == {e.user1_name, e.user2_name}

\* processBatch of task t has returned with `out`
Returned(t, out) == pc[t] = "idle" /\ outcome[t] = out

\* C1: every committed Friendship row has user1_id < user2_id, whatever the events
\* were (equal names and either order included).
C1_CanonicalOrder == \A r \in friendships : r.user1Id < r.user2Id

\* C2: at most one committed Friendship row per unordered pair of user names, for
\* concurrent tasks in any interleaving: AddFriend(a,b) and AddFriend(b,a) target
\* the same row.
C2_OneRowPerPair ==
    \A r1, r2 \in friendships : PairNames(r1) = PairNames(r2) => r1 = r2

\* two transactions are open at once for AddFriend(alice,bob) and AddFriend(bob,alice):
\* the first has upserted the row of the pair, the second waits for the same key
C2_Witness ==
    /\ batch[1] = <<AddFriendEvent("alice", "bob")>>
    /\ batch[2] = <<AddFriendEvent("bob", "alice")>>
    /\ pc[1] = "logs"
    /\ pc[2] = "friendships"
    /\ FriendKeys(txFriend[1]) =
          Range(friendshipData(preprocessBatch(batch[2]), userMap[2]))

ReferralNames(row) == <<users[row.referrerId], users[row.referredId]>>

\* C3: at most one Referral row per directed (referrer, referred) pair of names; every
\* committed Referral event has its row, and every occurrence of it has its log row.
C3_OneReferralPerPair ==
    /\ \A i, j \in 1..Len(referrals) :
          ReferralNames(referrals[i]) = ReferralNames(referrals[j]) => i = j
    /\ \A k \in 1..Len(okEvents) :
          okEvents[k].type = "referral" =>
             \E i \in 1..Len(referrals) :
                ReferralNames(referrals[i]) = <<okEvents[k].referredBy, okEvents[k].user>>
    /\ Len(SelectSeq(logs, LAMBDA l : l.transactionType = "referral"))
          = Len(OfType(okEvents, "referral"))

\* a batch that holds the same Referral twice has been committed: one row, two logs
C3_Witness ==
    \E t \in Tasks :
       /\ Returned(t, "ok")
       /\ batch[t] = <<ReferralEvent("alice", "bob"), ReferralEvent("alice", "bob")>>
       /\ Len(referrals) = 1
       /\ Len(logs) = 2

\* C4: no two User rows have the same name, and every name of a committed batch has
\* its User row, for concurrent tasks whose batches reference the same new name.
C4_OneUserPerName ==
    /\ \A i, j \in 1..Len(users) : users[i] = users[j] => i = j
    /\ \A k \in 1..Len(okEvents) : EventNames(okEvents[k]) \subseteq UserNames

\* two batches that reference the same new name are in their transactions at once
C4_Witness ==
    /\ batch[1] = <<RegisterEvent("alice")>>
    /\ batch[2] = <<ReferralEvent("alice", "alice")>>
    /\ pc[1] \in TxStages
    /\ pc[2] \in TxStages
    /\ users = <<"alice">>

\* C5: the TransactionLog holds exactly one row per event of the committed batches, in
\* commit and input order, with the type and the data of the event; a processBatch that
\* failed has added none.
C5_LogPerEvent ==
    /\ Len(logs) = Len(okEvents)
    /\ \A i \in 1..Len(logs) :
          /\ logs[i].transactionType = okEvents[i].type
          /\ logs[i].transactionData = okEvents[i]
    /\ \A i \in 1..Len(runs) :
          runs[i].logsAfter - runs[i].logsBefore =
             IF runs[i].outcome = "ok" THEN Len(runs[i].batch) ELSE 0

\* a batch of three events, two of them equal, has been committed
C5_Witness ==
    \E t \in Tasks :
       /\ Returned(t, "ok")
       /\ Len(batch[t]) = 3
       /\ batch[t][1] = batch[t][3]
       /\ Len(logs) = 3

\* the status the claim "the last event in input order wins" gives the pair of the
\* friend event b[i], when b[i] is the last friend event of its pair in b
StatusOfLast(e) == IF e.type = "addfriend" THEN "ACTIVE" ELSE "INACTIVE"

IsLastOfPair(b, i) ==
    /\ IsFriendEvent(b[i])
    /\ \A j \in (i + 1)..Len(b) :
          ~(IsFriendEvent(b[j]) /\ EventPair(b[j]) = EventPair(b[i]))

HasBothFor(b, i) ==
    /\ \E j \in 1..Len(b) : b[j].type = "addfriend" /\ EventPair(b[j]) = EventPair(b[i])
    /\ \E j \in 1..Len(b) : b[j].type = "unfriend" /\ EventPair(b[j]) = EventPair(b[i])

\* C6: when a committed batch holds both AddFriend and Unfriend events for a pair, the
\* pair has one Friendship row and its status is the one set by the LAST of these
\* events in input order.
C6_LastWins ==
    \A t \in Tasks :
       Returned(t, "ok") =>
          \A i \in 1..Len(batch[t]) :
             (IsLastOfPair(batch[t], i) /\ HasBothFor(batch[t], i)) =>
                \E r \in friendships :
                   /\ PairNames(r) = EventPair(batch[t][i])
                   /\ r.status = StatusOfLast(batch[t][i])

StageRank(stage) ==
    CASE stage = "referrals" -> 1
      [] stage = "friendships" -> 2
      [] stage = "unfriendships" -> 3
      [] stage = "logs" -> 4

\* C7: the statements of a projection transaction are issued in the fixed order
\* referrals, friendship upserts, unfriend updates, transaction logs, each step with a
\* non-empty list once; so a pair that a committed batch first adds and then
\* unfriends has its row INACTIVE.
C7_FixedOrder ==
    \A t \in Tasks :
       /\ \A i, j \in 1..Len(issued[t]) :
             i < j => StageRank(issued[t][i]) < StageRank(issued[t][j])
       /\ Returned(t, "ok") =>
             /\ \A stage \in TxStages :
                   stage \in Range(issued[t])
                      <=> Len(StageList(preprocessBatch(batch[t]), stage)) > 0
             /\ \A i, j \in 1..Len(batch[t]) :
                   (/\ i < j
                    /\ batch[t][i].type = "addfriend"
                    /\ batch[t][j].type = "unfriend"
                    /\ EventPair(batch[t][i]) = EventPair(batch[t][j])) =>
                      /\ RowsOfPair(batch[t][i].user1_name, batch[t][i].user2_name) # {}
                      /\ \A r \in RowsOfPair(batch[t][i].user1_name,
                                             batch[t][i].user2_name) :
                            r.status = "INACTIVE"

\* the batch [AddFriend(alice,bob), Unfriend(bob,alice)] has been committed by a
\* transaction that issued the upsert, the update and the log insert
C7_Witness ==
    \E t \in Tasks :
       /\ Returned(t, "ok")
       /\ batch[t] = <<AddFriendEvent("alice", "bob"), UnfriendEvent("bob", "alice")>>
       /\ issued[t] = <<"friendships", "unfriendships", "logs">>
       /\ \E r \in friendships : r.status = "INACTIVE"

\* the batch holds AddFriend events only, at least two, all of one pair
IsRepeatedAdd(b) ==
    /\ Len(b) >= 2
    /\ \A i \in 1..Len(b) :
          b[i].type = "addfriend" /\ EventPair(b[i]) = EventPair(b[1])

OneActiveRow(a, b) ==
    /\ Cardinality(RowsOfPair(a, b)) = 1
    /\ \A r \in RowsOfPair(a, b) : r.status = "ACTIVE"

\* C8: AddFriend(a,b) followed by AddFriend(a,b) or AddFriend(b,a) succeeds and leaves
\* one ACTIVE row of the pair, whether the two events are in one batch or in successive
\* batches; AddFriend, Unfriend, AddFriend in successive batches leaves one ACTIVE row.
\* (A processBatch that the store failed for another reason is not counted.)
C8_AddTwice ==
    /\ \A t \in Tasks :
          (/\ pc[t] = "idle"
           /\ outcome[t] \notin {"none"} \cup StoreErrors
           /\ IsRepeatedAdd(batch[t])) =>
              /\ outcome[t] = "ok"
              /\ OneActiveRow(batch[t][1].user1_name, batch[t][1].user2_name)
    /\ (/\ Len(runs) = 2
        /\ runs[1].outcome = "ok"
        /\ runs[2].outcome = "ok"
        /\ Len(runs[1].batch) = 1
        /\ Len(runs[2].batch) = 1
        /\ runs[1].batch[1].type = "addfriend"
        /\ runs[2].batch[1].type = "addfriend"
        /\ EventPair(runs[1].batch[1]) = EventPair(runs[2].batch[1])) =>
           \A t \in Tasks :
              Returned(t, "ok") =>
                 OneActiveRow(runs[2].batch[1].user1_name, runs[2].batch[1].user2_name)

PairsAndStatuses(rows) ==
    {[user1Id |-> r.user1Id, user2Id |-> r.user2Id, status |-> r.status] : r \in rows}

\* C9: projecting a batch twice in succession leaves the User, Friendship and Referral
\* tables as the first projection left them; the second projection does not fail where
\* the first succeeded, and the TransactionLog then holds the rows of the batch twice.
C9_Idempotent ==
    (/\ Len(runs) = 2
     /\ runs[1].batch = runs[2].batch
     /\ runs[1].outcome # "store_error") =>
        /\ runs[2].users = runs[1].users
        /\ PairsAndStatuses(runs[2].friendships) = PairsAndStatuses(runs[1].friendships)
        /\ runs[2].referrals = runs[1].referrals
        /\ runs[2].outcome \in {runs[1].outcome, "store_error"}
        /\ (runs[1].outcome = "ok" /\ runs[2].outcome = "ok") =>
              /\ runs[2].logsBefore = runs[1].logsAfter
              /\ runs[2].logsAfter - runs[1].logsBefore = 2 * Len(runs[1].batch)

\* a batch that adds a referral, upserts a friendship and unfriends it has been
\* projected twice, and committed both times
C9_Witness ==
    /\ Len(runs) = 2
    /\ runs[1].batch = <<ReferralEvent("alice", "bob"), AddFriendEvent("alice", "bob"),
                         UnfriendEvent("alice", "bob")>>
    /\ runs[2].batch = runs[1].batch
    /\ runs[1].outcome = "ok"
    /\ runs[2].outcome = "ok"
    /\ replays = 1

ValidId(id) == id \in 1..Len(users)

\* C10: referential integrity, in every reachable state of the concurrent tasks: every
\* user id of a Friendship, Referral or TransactionLog row, committed or written by an
\* open transaction, is the id of a User row; the log row of an event carries the id
\* of the event's subject; and inside the transaction userMap resolves every name of
\* the batch to the id of the User row with that name.
C10_ReferentialIntegrity ==
    /\ \A r \in friendships \cup UNION {txFriend[t] : t \in Tasks} :
          ValidId(r.user1Id) /\ ValidId(r.user2Id)
    /\ \A r \in Range(referrals) \cup UNION {Range(txRef[t]) : t \in Tasks} :
          ValidId(r.referrerId) /\ ValidId(r.referredId)
    /\ \A i \in 1..Len(logs) :
          /\ ValidId(logs[i].userId)
          /\ users[logs[i].userId] = LogOf(logs[i].transactionData).userName
    /\ \A t \in Tasks :
          pc[t] \in TxStages =>
             /\ DOMAIN userMap[t] = preprocessBatch(batch[t]).newUsers
             /\ \A n \in DOMAIN userMap[t] :
                   ValidId(userMap[t][n]) /\ users[userMap[t][n]] = n

\* two transactions are open at once, one has written a friendship row of two users
\* it created, the other a referral row of the same users, and a log row is committed
C10_Witness ==
    /\ pc[1] \in TxStages
    /\ pc[2] \in TxStages
    /\ txFriend[1] # {}
    /\ txRef[2] # <<>>
    /\ Len(users) = 2

\* attempts the deadlock protocol gives a projection transaction
TxAttemptLimit == 5

\* C11: a projection transaction that fails with a deadlock error is retried as a
\* whole, so processBatch throws a deadlock error only when its transaction has been
\* attempted 5 times and every attempt has deadlocked.
C11_DeadlockRetried ==
    \A t \in Tasks : Returned(t, "deadlock") => attempts[t] = TxAttemptLimit

\* C13: single-flight user creation: for every name at most one prisma.user.create
\* is in flight at any time, whatever the number of concurrent batches that miss the
\* name in the cache, and the batches that wait for the creation of a name hold the
\* same id for it afterwards.
C13_SingleFlight ==
    /\ \A n \in Names : inserts[n] <= 1
    /\ \A n \in Names : \A t, u \in Tasks :
          n \in DOMAIN userMap[t] \cap DOMAIN userMap[u] => userMap[t][n] = userMap[u][n]

\* two batches wait for one name that was not in the cache, with one insert in flight
C13_Witness ==
    \E n \in Names :
       /\ inserts[n] = 1
       /\ n \in pending[1] \cap pending[2]
       /\ MapGet(userCache, n) = 0

\* the findUnique sent after a unique violation on name n is answered in this step
AbsorbsP2002(n) ==
    /\ n \in DOMAIN userCreationMutex
    /\ userCreationMutex[n] = "find"
    /\ n \notin DOMAIN userCreationMutex'

\* C14: a unique violation on the insert of a user does not fail the batch: the id of
\* the existing row is looked up by name, no row is added, the id is put in the cache
\* and in the userMap of every batch that waits for the name, and these batches go on.
C14_UniqueViolationAbsorbed ==
    [][\A n \in Names :
          AbsorbsP2002(n) =>
             /\ users' = users
             /\ n \in UserNames
             /\ MapGet(userCache', n) = UserIdOf(n)
             /\ \A t \in Tasks :
                   n \in pending[t] =>
                      /\ MapGet(userMap'[t], n) = UserIdOf(n)
                      /\ pc'[t] \in {"users"} \cup TxStages
                      /\ outcome'[t] = "none"]_vars

\* the insert of a name a batch waits for has met the unique index (the row exists,
\* the cache does not hold it) and the lookup by name has been sent
C14_Witness ==
    \E n \in Names : \E t \in Tasks :
       /\ n \in DOMAIN userCreationMutex
       /\ userCreationMutex[n] = "find"
       /\ n \in pending[t]
       /\ n \in UserNames
       /\ MapGet(userCache, n) = 0

\* the items the producer can have queued
QueueItems == {Stamp(e, i) : e \in QueueEvents, i \in 1..QueueLen}

\* the TransactionLog rows of a queue item
LogRowsOf(e) == {i \in 1..Len(logs) : logs[i].transactionData = e}

\* the events of the processBatch calls that have thrown
FailedEvents ==
    UNION {Range(runs[i].batch) : i \in {j \in 1..Len(runs) : runs[j].outcome # "ok"}}
    \cup UNION {Range(batch[t]) : t \in {u \in Tasks : Throws(u)}}

\* C12: a store error that is not a deadlock fails the batch at its first occurrence,
\* the transaction having been attempted once; the events of a batch that has failed
\* are lost: they are not in the queue again and never get a TransactionLog row.
C12_FailedBatchLost ==
    /\ \A t \in Tasks : outcome[t] = "store_error" => attempts[t] = 1
    /\ \A e \in FailedEvents : Stringify(e) \notin Range(queue) /\ LogRowsOf(e) = {}

\* one of the two queued events has failed with a store error and is lost, the
\* other has been projected after it, and the queue is empty
C12_Witness ==
    /\ Len(runs) = 2
    /\ runs[1].outcome = "store_error"
    /\ runs[2].outcome = "ok"
    /\ Len(logs) = 1
    /\ queue = <<>>
    /\ \A w \in WorkerIds : wpc[w] = "sleep50"

\* the places that hold queue item e: the queue and the workers that have popped it
HoldersOf(e) ==
    {w \in WorkerIds : e \in Range(popped[w])}
    \cup (IF Stringify(e) \in Range(queue) THEN {0} ELSE {})

\* C15: with two workers on one queue, every queue item is in the queue or has been
\* delivered to one worker, it is in at most one processBatch call and has at most
\* one TransactionLog row; and no step of the worker system adds an item to the
\* queue: a step leaves the queue as it is or removes items from its tail.
C15_AtMostOnce ==
    /\ [](\A e \in QueueItems :
            /\ Cardinality(HoldersOf(e)) <= 1
            /\ Cardinality({t \in Tasks : pc[t] # "idle" /\ e \in Range(batch[t])}) <= 1
            /\ Cardinality(LogRowsOf(e)) <= 1)
    /\ [][\E k \in 0..Len(queue) : queue' = SubSeq(queue, 1, Len(queue) - k)]_vars

\* each of the two workers has popped one of the two items, and both are projected
C15_Witness ==
    /\ Len(popped[1]) = 1
    /\ Len(popped[2]) = 1
    /\ popped[1] # popped[2]
    /\ LogRowsOf(popped[1][1]) # {}
    /\ LogRowsOf(popped[2][1]) # {}
    /\ queue = <<>>

\* the friend events of the pair of e that have a TransactionLog row
LoggedOfPair(e) ==
    {logs[k].transactionData : k \in {i \in 1..Len(logs) :
        /\ IsFriendEvent(logs[i].transactionData)
        /\ EventPair(logs[i].transactionData) = EventPair(e)}}

\* C16: the events of one popped batch are projected in input order: when a worker
\* has popped AddFriend(a,b) before Unfriend(a,b) in one batch, both are projected and
\* no other event of the pair is, the effect of the Unfriend is the last one applied
\* to the row of the pair, which is INACTIVE.
C16_InputOrder ==
    \A w \in WorkerIds : \A i, j \in 1..Len(popped[w]) :
       (/\ i < j
        /\ popped[w][i].type = "addfriend"
        /\ popped[w][j].type = "unfriend"
        /\ EventPair(popped[w][i]) = EventPair(popped[w][j])
        /\ LoggedOfPair(popped[w][i]) = {popped[w][i], popped[w][j]}
        /\ \A t \in Tasks : pc[t] = "idle") =>
           /\ RowsOfPair(popped[w][i].user1_name, popped[w][i].user2_name) # {}
           /\ \A r \in RowsOfPair(popped[w][i].user1_name, popped[w][i].user2_name) :
                 r.status = "INACTIVE"

\* the events of the batch of worker w that have a TransactionLog row
LoggedOf(w) == {i \in 1..Len(popped[w]) : LogRowsOf(popped[w][i]) # {}}

\* C17: a popped batch is committed in one store transaction: at any time the
\* effects of all the events of the batch a worker has popped are visible, or those of
\* none are.
C17_OneTransactionPerBatch ==
    \A w \in WorkerIds : LoggedOf(w) = {} \/ LoggedOf(w) = 1..Len(popped[w])

\* C18: a failure of a batch does not end a worker task: when a processBatch of its
\* iteration has thrown, the worker goes to its sleep of 200 ms, and from there to its
\* next popBatch as long as the flag is set; a worker task has ended only when stop()
\* has been called and has cleared the flag.
C18_FailureDoesNotStopWorker ==
    /\ [](\A w \in WorkerIds : wpc[w] = "stopped" => ~isRunning /\ stopPc # "none")
    /\ [][\A w \in WorkerIds :
            (/\ wpc[w] = "process"
             /\ \E t \in awaiting[w] : Throws(t)
             /\ wpc'[w] # "process") => wpc'[w] = "sleep200"]_vars
    /\ [][\A w \in WorkerIds :
            (wpc[w] = "sleep200" /\ wpc'[w] # "sleep200") =>
               wpc'[w] = IF isRunning THEN "pop" ELSE "stopped"]_vars

\* a worker whose processBatch has thrown has slept and is popping again, the flag
\* being set and the queue holding an item
C18_Witness ==
    \E w \in WorkerIds : \E t \in Tasks :
       /\ Throws(t)
       /\ Range(batch[t]) \subseteq Range(popped[w])
       /\ wpc[w] = "pop"
       /\ isRunning
       /\ Len(queue) > 0

\* C19: once stop() has issued the disconnect of the queue, and then that of the
\* store, every worker task has left its loop and nothing a worker has started pops
\* from the queue or works on the store: no processBatch is in progress.
C19_NoWorkAfterDisconnect ==
    stopPc \in {"redis", "database", "returned"} =>
       /\ \A w \in WorkerIds : wpc[w] \in {"new", "stopped"}
       /\ \A t \in Tasks : pc[t] = "idle"

\* C20: stop() drains the batches in flight: a worker task that has left its loop
\* has handed every event of the last batch it popped to processBatch, and every one
\* of these calls is over, with the event committed or the call failed.
C20_DrainsInFlight ==
    \A w \in WorkerIds :
       wpc[w] = "stopped" =>
          \A e \in Range(popped[w]) : LogRowsOf(e) # {} \/ e \in FailedEvents

\* the types of the events
EventTypes == {"register", "referral", "addfriend", "unfriend"}

\* the fields an event of a type must have
RequiredFields(type) ==
    CASE type = "register" -> {"name"}
      [] type = "referral" -> {"referredBy", "user"}
      [] type = "addfriend" -> {"user1_name", "user2_name"}
      [] type = "unfriend" -> {"user1_name", "user2_name"}

\* a payload that is JSON, with one of the four types and with a string in every
\* field its type requires
WellFormed(payload) ==
    /\ "json" \in DOMAIN payload
    /\ payload.json # JsonNull
    /\ "type" \in DOMAIN payload.json
    /\ \E type \in EventTypes :
          /\ payload.json.type = Str(type)
          /\ \A f \in RequiredFields(type) :
                /\ f \in DOMAIN payload.json
                /\ "str" \in DOMAIN payload.json[f]

\* the variants whose type guard accepts a value
VariantsOf(event) ==
    {type \in EventTypes :
        CASE type = "register" -> isRegisterEvent(event)
          [] type = "referral" -> isReferralEvent(event)
          [] type = "addfriend" -> isAddFriendEvent(event)
          [] type = "unfriend" -> isUnfriendEvent(event)}

\* C25: parseTransaction returns an event exactly for the payloads that are JSON with
\* one of the four types and a string in every required field of the type, created_at
\* or not; the event is the parsed object and exactly one type guard accepts it; for
\* every other payload, null included, it throws.
C25_DecoderAccepts ==
    (popped[1] # <<>> \/ parseErrors > 0) =>
       /\ popped[1] # <<>> <=> WellFormed(queue[1])
       /\ parseErrors = 1 <=> ~WellFormed(queue[1])
       /\ popped[1] # <<>> =>
             /\ popped[1] = <<EventOf(queue[1].json)>>
             /\ Cardinality(VariantsOf(queue[1].json)) = 1

\* a referral without created_at has been accepted
C25_Witness ==
    /\ popped[1] # <<>>
    /\ popped[1][1].type = "referral"
    /\ "created_at" \notin DOMAIN queue[1].json
    /\ DOMAIN popped[1][1] = {"type", "referredBy", "user"}

\* the events of the well-formed payloads among results, in the order of results
RECURSIVE ValidEvents(_)
ValidEvents(results) ==
    IF results = <<>> THEN <<>>
    ELSE (IF WellFormed(Head(results)) THEN <<EventOf(Head(results).json)>> ELSE <<>>)
            \o ValidEvents(Tail(results))

\* the results among which a payload is malformed
MalformedIn(results) == {i \in 1..Len(results) : ~WellFormed(results[i])}

\* a popBatch of worker w gets the results of its pipeline and returns
PipelineReturns(w) == wpc[w] = "pop" /\ wpc'[w] \in {"process", "sleep50"}

\* C21: a malformed payload popped from the queue is dropped and logged without
\* failing the pop: a popBatch whose pipeline has popped k items returns the events
\* of the valid ones, in pop order, and has logged one parse error for each of the
\* others.
C21_MalformedDropped ==
    [][\A w \in WorkerIds :
          PipelineReturns(w) =>
             LET results == PopOrder(queue, Len(queue) - Len(queue'))
             IN  /\ popped'[w] = ValidEvents(results)
                 /\ parseErrors' = parseErrors + Cardinality(MalformedIn(results))]_vars

\* popBatch of worker w returns to workerProcess
PopBatchReturns(w) == wpc'[w] \in {"process", "sleep50"}

\* C22: when the pipeline fails, popBatch starts the serial fallback with no event;
\* an rPop of the fallback that is answered adds the event of its item, if it is
\* valid, after those popped so far; popBatch returns them at the first null answer
\* or when n answers have come, and goes on with the next rPop otherwise.
C22_FallbackStops ==
    [][\A w \in WorkerIds :
          /\ (wpc[w] = "pop" /\ wpc'[w] # "pop" /\ ~PipelineReturns(w)) =>
                wpc'[w] = "fallback" /\ popped'[w] = <<>>
          /\ FallbackPop(w) =>
                LET results == IF Len(queue) = 0 THEN <<>> ELSE <<queue[Len(queue)]>>
                IN  /\ popped'[w] = popped[w] \o ValidEvents(results)
                    /\ PopBatchReturns(w) <=>
                          (Len(queue) = 0 \/ popI[w] + 1 = BatchSize)
                    /\ ~PopBatchReturns(w) => wpc'[w] = "fallback"]_vars

\* no call of popBatch ends in the catch of workerProcess
PopBatchNeverRaises ==
    \A w \in WorkerIds :
       wpc[w] \in {"pop", "fallback"} =>
          wpc'[w] \in {"pop", "fallback", "process", "sleep50"}

\* C23, as claimed: popBatch never raises, and when the fallback fails after the
\* pipeline has failed, at whatever pop, popBatch returns an empty list (the steps
\* looked at are those of a failing rPop that an answered rPop could not make).
C23_FallbackErrorEmpty ==
    [][/\ PopBatchNeverRaises
       /\ \A w \in WorkerIds : \A executed \in BOOLEAN :
             (FallbackFails(w, executed) /\ ~FallbackPop(w)) =>
                PopBatchReturns(w) /\ popped'[w] = <<>>]_vars

\* C23, amended: popBatch never raises, and when the fallback fails after the
\* pipeline has failed, popBatch returns the events the fallback has popped before
\* the failing pop, at most one for each answered pop, in pop order: the empty list
\* when the first pop fails.
C23_FallbackErrorReturnsPopped ==
    [][/\ PopBatchNeverRaises
       /\ \A w \in WorkerIds : \A executed \in BOOLEAN :
             FallbackFails(w, executed) =>
                /\ PopBatchReturns(w)
                /\ popped'[w] = popped[w]
                /\ Len(popped'[w]) <= popI[w]
                /\ popI[w] = 0 => popped'[w] = <<>>]_vars

\* a popBatch has returned one event and has left an item in the queue: its pipeline
\* has failed, the first rPop of its fallback has been answered and the second has
\* failed
C23_Witness ==
    \E w \in WorkerIds :
       /\ wpc[w] = "process"
       /\ Len(popped[w]) = 1
       /\ Len(queue) = QueueLen - 1

\* the items a step removes from the tail of the queue, in pop order
Removed == PopOrder(queue, Len(queue) - Len(queue'))

\* a step removes k items from the tail of the queue, for a k up to n
RemovesUpTo(n) ==
    \E k \in 0..Min(n, Len(queue)) : queue' = SubSeq(queue, 1, Len(queue) - k)

\* C24, as claimed: a popBatch(queue, n) whose pipeline is answered removes at most n
\* items from the tail of the queue and returns exactly the items it has removed,
\* decoded and in pop order; on an empty queue it returns an empty list and removes
\* nothing.
C24_ReturnsWhatItRemoved ==
    [][\A w \in WorkerIds :
          PipelineReturns(w) =>
             /\ RemovesUpTo(BatchSize)
             /\ Len(popped'[w]) = Len(Removed)
             /\ \A i \in 1..Len(Removed) : Stringify(popped'[w][i]) = Removed[i]
             /\ queue = <<>> => popped'[w] = <<>> /\ queue' = <<>>]_vars

\* C24, amended: the pipeline of popBatch(queue, n) removes at most n items from the
\* tail of the queue and each rPop of the fallback at most one; popBatch returns, in
\* pop order, exactly the events of the valid items among those removed by the
\* requests that were answered (the malformed ones are dropped, and a request that
\* fails returns none of the items it has removed); on an empty queue popBatch does
\* not wait: it returns an empty list and removes nothing.
C24_ReturnsValidItemsRemoved ==
    /\ [][\A w \in WorkerIds :
            /\ PipelineReturns(w) =>
                  /\ RemovesUpTo(BatchSize)
                  /\ popped'[w] = ValidEvents(Removed)
                  /\ queue = <<>> => popped'[w] = <<>> /\ queue' = <<>>
            /\ FallbackPop(w) =>
                  /\ RemovesUpTo(1)
                  /\ popped'[w] = popped[w] \o ValidEvents(Removed)
            /\ (wpc[w] = "pop" /\ wpc'[w] = "fallback") =>
                  RemovesUpTo(BatchSize) /\ popped'[w] = <<>>
            /\ (\E executed \in BOOLEAN : FallbackFails(w, executed)) =>
                  RemovesUpTo(1) /\ popped'[w] = popped[w]]_vars
    /\ [](\A w \in WorkerIds :
            (wpc[w] = "pop" /\ queue = <<>>) => ENABLED Pipeline(w))

\* a popBatch has removed a malformed item and a valid one, has logged the first and
\* has returned the event of the second
C24_Witness ==
    \E w \in WorkerIds :
       /\ wpc[w] = "process"
       /\ Len(popped[w]) = 1
       /\ parseErrors = 1
       /\ queue = <<>>
       /\ \A v \in WorkerIds \ {w} : wpc[v] = "pop" /\ popped[v] = <<>>

\* C26: processBatch of an empty batch returns at once: the call leaves the store
\* and the cache as they are and sends no findMany, not even when the cache is stale,
\* and an empty batch is never in a refresh, a user creation or a transaction; the
\* transaction of a non-empty batch issues a statement only for the steps whose list
\* is not empty.
C26_EmptyNoOp ==
    /\ [](\A t \in Tasks :
            /\ batch[t] = <<>> => pc[t] = "idle" /\ issued[t] = <<>>
            /\ \A i \in 1..Len(issued[t]) :
                  Len(StageList(preprocessBatch(batch[t]), issued[t][i])) > 0)
    /\ [][\A t \in Tasks :
            Begin(t, <<>>) =>
               /\ UNCHANGED <<storeVars, userCache, cacheStale, snap, userCreationMutex,
                              inserts, txRef, txFriend>>
               /\ outcome'[t] = "ok"]_vars

\* processBatch has returned from an empty batch while the cache is stale and the
\* store holds a user; the other task has committed a batch with the log statement
\* alone
C26_Witness ==
    \E t \in Tasks :
       /\ batch[t] = <<>>
       /\ outcome[t] = "ok"
       /\ cacheStale
       /\ Len(users) > 0
       /\ \E u \in Tasks \ {t} : outcome[u] = "ok" /\ issued[u] = <<"logs">>

\* the user an event is about
SubjectOf(e) ==
    IF e.type = "register" THEN e.name
    ELSE IF e.type = "referral" THEN e.user
    ELSE e.user1_name

\* C27: every name of a projected event has a User row, whether a register event
\* has named it or not, and the TransactionLog row of the event carries the id of the
\* User row of its subject: the registered name, the referred user of a referral,
\* user1 of an addfriend or unfriend.
C27_LogSubject ==
    \A i \in 1..Len(logs) :
       LET e == logs[i].transactionData
       IN  /\ EventNames(e) \subseteq UserNames
           /\ logs[i].userId \in 1..Len(users)
           /\ users[logs[i].userId] = SubjectOf(e)
           /\ logs[i].transactionType = e.type

\* a referral between two names is logged with the id of the referred user, both
\* users exist and no register event has been projected
C27_Witness ==
    /\ \E i \in 1..Len(logs) :
          LET e == logs[i].transactionData
          IN  /\ e.type = "referral"
              /\ e.user # e.referredBy
              /\ users[logs[i].userId] = e.user
              /\ {e.user, e.referredBy} \subseteq UserNames
    /\ \A i \in 1..Len(logs) : logs[i].transactionType # "register"

\* processBatch is called with a batch that is not empty
Starts(t) == pc[t] = "idle" /\ pc'[t] # "idle"

\* the findMany of refreshUserCache is answered
Scans(t) == pc[t] = "refresh" /\ pc'[t] = "refreshed"

\* ensureUsersExist resolves the names of the batch after the re-scan
ResolvesAfterScan(t) == pc[t] = "refreshed" /\ pc'[t] # "refreshed"

\* C28: a processBatch called once the cache TTL has expired re-scans the user table
\* before it resolves any name: the scan returns every User row of the store, whoever
\* created it, and every name of the batch that the scan returned is resolved to the
\* id of its row without an insert request.  A processBatch called before the TTL has
\* expired does not re-scan.
C28_RescanAfterTTL ==
    [][\A t \in Tasks :
          /\ Starts(t) /\ cacheStale =>
                /\ pc'[t] = "refresh"
                /\ inserts' = inserts
                /\ userMap'[t] = userMap[t]
          /\ Starts(t) /\ ~cacheStale => pc'[t] \notin {"refresh", "refreshed"}
          /\ pc'[t] = "refresh" /\ pc[t] # "refresh" => Starts(t) /\ cacheStale
          /\ pc'[t] = "refreshed" /\ pc[t] # "refreshed" => Scans(t)
          /\ Scans(t) =>
                \A n \in UserNames : MapGet(snap'[t], n) = UserIdOf(n)
          /\ pc[t] = "refreshed" /\ pc'[t] = "refreshed" => snap'[t] = snap[t]
          /\ ResolvesAfterScan(t) =>
                \A n \in preprocessBatch(batch[t]).newUsers :
                   MapGet(snap[t], n) # 0 =>
                      /\ MapGet(userMap'[t], n) = MapGet(snap[t], n)
                      /\ n \notin pending'[t]
                      /\ inserts'[n] = inserts[n]
                      /\ MapGet(userCache', n) = MapGet(snap[t], n)]_vars

\* the first processBatch of the process was called after the TTL had expired and its
\* re-scan has returned a User row, created by another client, that its batch names
\* and the cache did not hold
C28_Witness ==
    \E t \in Tasks : \E n \in Names :
       /\ pc[t] = "refreshed"
       /\ n \in preprocessBatch(batch[t]).newUsers
       /\ MapGet(snap[t], n) # 0
       /\ MapGet(userCache, n) = 0
       /\ budget = MaxEvents - Len(batch[t])
       /\ replays = 0
       /\ \A u \in Tasks \ {t} : pc[u] = "idle" /\ outcome[u] = "none"

\* the transaction of processBatch commits
Commits(t) == pc[t] = "logs" /\ pc'[t] = "idle" /\ outcome'[t] = "ok"

\* C29: when a batch commits, its Unfriend events have changed only Friendship rows
\* that existed and were ACTIVE.  Apart from the pairs its AddFriend events name: no
\* row is created; a row that was INACTIVE, or that no Unfriend event names, is left
\* as it was, updated_at included; a row that has changed was ACTIVE, is named by an
\* Unfriend event and is now INACTIVE.  The users of every event have a User row and
\* the batch has added one TransactionLog row per event.
C29_UnfriendGuarded ==
    [][\A t \in Tasks :
          Commits(t) =>
             LET bd == preprocessBatch(batch[t])
                 added == Range(friendshipData(bd, userMap[t]))
                 unfriended == Range(unfriendshipData(bd, userMap[t]))
             IN  /\ \A r \in friendships' :
                       FriendKey(r) \notin added => FriendKey(r) \in FriendKeys(friendships)
                 /\ \A r \in friendships :
                       /\ FriendKey(r) \notin added
                       /\ r.status = "INACTIVE" \/ FriendKey(r) \notin unfriended
                       => r \in friendships'
                 /\ \A r \in friendships :
                       FriendKey(r) \notin added /\ r \notin friendships' =>
                          /\ r.status = "ACTIVE"
                          /\ FriendKey(r) \in unfriended
                          /\ FriendRow(FriendKey(r), "INACTIVE", r.updatedAt + 1)
                                \in friendships'
                 /\ \A i \in 1..Len(batch[t]) : EventNames(batch[t][i]) \subseteq UserNames'
                 /\ Len(logs') = Len(logs) + Len(batch[t])
                 /\ \A i \in 1..Len(batch[t]) :
                       logs'[Len(logs) + i].transactionData = batch[t][i]]_vars

\* Unfriend(alice, bob) has been projected a second time, on the row that the first
\* Unfriend had made INACTIVE: the row holds the updated_at of that first Unfriend
C29_Witness ==
    \E t \in Tasks :
       /\ pc[t] = "idle"
       /\ outcome[t] = "ok"
       /\ Len(batch[t]) = 1
       /\ batch[t][1].type = "unfriend"
       /\ replays = 1
       /\ Len(logs) = 3
       /\ logs[2].transactionData = batch[t][1]
       /\ logs[3].transactionData = batch[t][1]
       /\ \E key \in {<<1, 2>>} : friendships = {FriendRow(key, "INACTIVE", 2)}

IsPrefix(s, t) == Len(s) <= Len(t) /\ SubSeq(t, 1, Len(s)) = s

\* C30: the rows of the store only accumulate.  In every step the User rows keep
\* their ids and names, the Referral rows and the TransactionLog rows stay as they
\* are, at their places, and every Friendship row stays a row of the same pair: a
\* step changes at most its status and its updated_at.
C30_RowsAccumulate ==
    [][/\ IsPrefix(users, users')
       /\ IsPrefix(referrals, referrals')
       /\ IsPrefix(logs, logs')
       /\ \A r \in friendships :
             \E q \in friendships' :
                /\ q.user1Id = r.user1Id
                /\ q.user2Id = r.user2Id
                /\ DOMAIN q = DOMAIN r
                /\ q # r => q.status # r.status \/ q.updatedAt # r.updatedAt]_vars

\* the four tables hold rows, the Friendship row has been written more than once and
\* a batch has committed after the first Referral row and the first log row
C30_Witness ==
    /\ Len(users) >= 2
    /\ Len(referrals) >= 1
    /\ Len(logs) >= 3
    /\ \E r \in friendships : r.updatedAt >= 2

\* every entry of the mapping `old` is an entry of the mapping `new`
Extends(old, new) == \A k \in DOMAIN old : MapGet(new, k) = old[k]

\* ensureUsersExist looks the names of the batch up in the cache: at once in a call
\* that finds the cache fresh, after the re-scan otherwise
Resolves(t) ==
    \/ pc[t] = "idle" /\ pc'[t] \notin {"idle", "refresh"}
    \/ ResolvesAfterScan(t)

\* C31: a refresh replaces the cache mapping in one step.  A step that changes the
\* cache either installs the whole result of a re-scan or adds entries to the mapping
\* it found; and a batch that resolves its names resolves all of them against one
\* mapping, the one before the step or the one after it: the names that mapping
\* holds get its ids, the others are created.
C31_RefreshAtomic ==
    [][/\ userCache' # userCache =>
             \/ \E t \in Tasks : ResolvesAfterScan(t) /\ userCache' = snap[t]
             \/ Extends(userCache, userCache')
       /\ \A t \in Tasks :
             Resolves(t) =>
                \E M \in {userCache, userCache'} :
                   \A n \in preprocessBatch(batch'[t]).newUsers :
                      IF MapGet(M, n) # 0
                      THEN MapGet(userMap'[t], n) = M[n] /\ n \notin pending'[t]
                      ELSE n \in pending'[t] /\ MapGet(userMap'[t], n) = 0]_vars

\* a batch has resolved names from the cache while the refresh of another batch was
\* in flight, whose re-scan has been answered and is not yet installed
C31_Witness ==
    \E t, u \in Tasks :
       /\ t # u
       /\ pc[t] = "refreshed"
       /\ ~cacheStale
       /\ pc[u] \in TxStages
       /\ DOMAIN userMap[u] # {}
       /\ DOMAIN snap[t] # DOMAIN userCache

\* the INSERT of a name whose creation is under way is sent again
Resends(n) == n \in DOMAIN userCreationMutex /\ inserts'[n] > inserts[n]

\* C32: the creation of a user is retried only after a deadlock and sends at most 3
\* INSERTs for one single-flight call.  A deadlock on the first or the second attempt
\* leads to a backoff and fails no batch; a deadlock on the third attempt, and any
\* other error that is not a unique violation, on any attempt, ends the call and
\* fails every batch that awaits the name, before its transaction is opened.  An
\* INSERT is sent again only after a backoff, as the next attempt.
C32_CreateRetries ==
    /\ [](\A n \in Names : attempt[n] + 1 <= maxRetries)
    /\ [][\A n \in Names : \A error \in StoreErrors :
             UserFails(n, error) =>
                IF error = "deadlock" /\ attempt[n] + 1 < maxRetries
                THEN /\ userCreationMutex'[n] = "backoff"
                     /\ pc' = pc
                     /\ outcome' = outcome
                ELSE /\ n \notin DOMAIN userCreationMutex'
                     /\ \A t \in Tasks :
                           n \in pending[t] =>
                              /\ pc'[t] = "idle"
                              /\ outcome'[t] = error
                              /\ attempts'[t] = 0]_vars
    /\ [][\A n \in Names :
             Resends(n) =>
                /\ userCreationMutex[n] = "backoff"
                /\ attempt'[n] = attempt[n] + 1
                /\ inserts[n] = 0]_vars

\* a batch has failed with a deadlock before its transaction was opened: the third
\* INSERT of one of its names has deadlocked
C32_Witness ==
    \E t \in Tasks :
       /\ Returned(t, "deadlock")
       /\ attempts[t] = 0
       /\ Len(batch[t]) > 0

\* C33: once stop has been called, every workerProcess ends and stop returns, when
\* every request in flight is answered, whether the batches succeed or fail and
\* whether the queue empties or not.
C33_StopTerminates ==
    (stopPc = "waiting") ~>
       (stopPc = "returned" /\ \A w \in WorkerIds : wpc[w] \in {"new", "stopped"})

\* stop has returned and both loops have ended, after a batch that failed and with
\* an item left in the queue
C33_Witness ==
    /\ stopPc = "returned"
    /\ \A w \in WorkerIds : wpc[w] = "stopped"
    /\ Len(queue) > 0
    /\ \E t \in Tasks : Throws(t)

\* processBatch throws out of ensureUsersExist
FailsInUsers(t) == pc[t] = "users" /\ pc'[t] = "idle"

\* C34: a batch one of whose users cannot be created fails before its transaction is
\* opened.  The step in which it fails changes no table and no cache entry, so the
\* users created for its other names stay in the store and in the cache; its
\* transaction has not been attempted and has issued no statement; and the rows of
\* Friendship, Referral and TransactionLog change only when a batch commits whose
\* names are all resolved.
C34_CreationFailure ==
    /\ [](\A t \in Tasks :
            pc[t] \in {"refresh", "refreshed", "users"} =>
               txRef[t] = <<>> /\ txFriend[t] = {} /\ issued[t] = <<>>)
    /\ [][\A t \in Tasks :
            FailsInUsers(t) =>
               /\ outcome'[t] \in StoreErrors
               /\ attempts'[t] = 0
               /\ issued'[t] = <<>>
               /\ UNCHANGED storeVars
               /\ userCache' = userCache
               /\ \A m \in DOMAIN userMap[t] : users'[userMap[t][m]] = m]_vars
    /\ [][<<friendships, referrals, logs>>' # <<friendships, referrals, logs>> =>
            \E t \in Tasks :
               /\ Commits(t)
               /\ pending[t] = {}
               /\ preprocessBatch(batch[t]).newUsers \subseteq DOMAIN userMap[t]]_vars

\* the first batch of the process has failed on the creation of one of its two users:
\* the other user is in the store and in the cache, and the other tables are empty
C34_Witness ==
    \E t \in Tasks : \E m \in Names :
       /\ Returned(t, "store_error")
       /\ attempts[t] = 0
       /\ budget = MaxEvents - Len(batch[t])
       /\ \A u \in Tasks \ {t} : pc[u] = "idle" /\ outcome[u] = "none"
       /\ Cardinality(preprocessBatch(batch[t]).newUsers) = 2
       /\ users = <<m>>
       /\ MapGet(userCache, m) = 1
       /\ friendships = {} /\ referrals = <<>> /\ logs = <<>>

\* the transaction of processBatch fails
TxFails(t) == pc[t] \in TxStages /\ pc'[t] = "idle" /\ outcome'[t] # "ok"

\* C35: a projection transaction that fails leaves the Friendship, Referral and
\* TransactionLog tables as they were.  Its writes are pending until the commit and
\* are dropped when it fails, in a step that changes no table; the users of the batch
\* keep the rows created for them before the transaction; and a table of the three
\* changes only when a transaction commits, by the writes of that transaction.
C35_RolledBack ==
    /\ [](\A t \in Tasks : pc[t] \notin TxStages => txRef[t] = <<>> /\ txFriend[t] = {})
    /\ [][\A t \in Tasks :
            TxFails(t) =>
               /\ UNCHANGED <<users, friendships, referrals, logs, userCache>>
               /\ txRef'[t] = <<>>
               /\ txFriend'[t] = {}
               /\ preprocessBatch(batch[t]).newUsers \subseteq UserNames']_vars
    /\ [][<<friendships, referrals, logs>>' # <<friendships, referrals, logs>> =>
            \E t \in Tasks :
               /\ Commits(t)
               /\ friendships' = Overlay(friendships, txFriend[t])
               /\ referrals' = referrals \o txRef[t]
               /\ Len(logs') = Len(logs) + Len(batch[t])]_vars

\* a transaction has failed after it had written a Friendship row and a Referral
\* row: the tables are empty and the two users created for the batch are in the store
C35_Witness ==
    \E t \in Tasks :
       /\ Throws(t)
       /\ {"referrals", "friendships"} \subseteq Range(issued[t])
       /\ friendships = {} /\ referrals = <<>> /\ logs = <<>>
       /\ Len(users) = 2
       /\ \A u \in Tasks \ {t} : pc[u] = "idle" /\ outcome[u] = "none"

\* the mapping holds only pairs of a name and the id of the User row of that name
SoundMapping(m) ==
    \A n \in DOMAIN m :
       /\ m[n] \in 1..Len(users)
       /\ users[m[n]] = n

\* C36: the cache is sound with respect to the store.  Whenever the cache maps a
\* name to an id, the User row of that id exists and has that name, and the id is
\* not 0; so are the result of a re-scan that is not installed yet and the ids a
\* batch has resolved.
C36_CacheSound ==
    /\ SoundMapping(userCache)
    /\ \A t \in Tasks : SoundMapping(snap[t]) /\ SoundMapping(userMap[t])

\* a refresh has run concurrently with the creation of a user: it has installed a
\* re-scan older than the User row, which the cache has lost
C36_Witness ==
    /\ ~cacheStale
    /\ userCache # EmptyMap
    /\ \E n \in UserNames : MapGet(userCache, n) = 0

\* no worker is between its popBatch and the end of its iteration, and no
\* processBatch is running
Quiescent ==
    /\ \A w \in WorkerIds : wpc[w] # "process"
    /\ \A t \in Tasks : pc[t] = "idle"

\* C37: processedCount is the number of TransactionLog rows the process has
\* committed: whenever no batch is being processed, it equals the number of rows of
\* the table (it starts at 0, a batch that commits adds its size, a batch that fails
\* in whole or in part adds nothing to either).
C37_ProcessedCount == Quiescent => processedCount = Len(logs)

\* the events the producer may have queued, with their created_at
QueuedEvents == {Stamp(e, i) : e \in QueueEvents, i \in 1..QueueLen}

\* where the event e is: the items of the queue that encode it, the places it has in
\* the batches that are in processing, and its TransactionLog rows
Copies(e) ==
    Cardinality({i \in 1..Len(queue) : queue[i] = Stringify(e)})
    + Cardinality({ti \in Tasks \X (1..BatchSize) :
                      /\ pc[ti[1]] # "idle"
                      /\ ti[2] <= Len(batch[ti[1]])
                      /\ batch[ti[1]][ti[2]] = e})
    + Cardinality({i \in 1..Len(logs) : logs[i].transactionData = e})

\* the queue is empty and no batch is in processing
Drained ==
    /\ queue = <<>>
    /\ \A t \in Tasks : pc[t] = "idle"

C39_NothingActive ==
    /\ [](stopPc = "returned" => \A w \in WorkerIds : wpc[w] \in {"new", "stopped"})
    /\ [][stopPc = "returned" => ~MonitorFires]_vars

====
